---- MODULE Spec2Model ----
(***************************************************************************)
(* The daily synchronisation subsystem of the GA4 multi-client dashboard:  *)
(* syncService (syncClientMetrics, syncAllClients, syncYesterday,          *)
(* backfillClientData, logSync), the part of ga4Service it calls           *)
(* (fetchDailyMetrics and its parsers), the two tables it writes           *)
(* (daily_metrics, sync_logs) and the triggers that start it (cron job,    *)
(* auto-sync middleware, POST /api/metrics/sync, runSyncNow, scripts).     *)
(*                                                                         *)
(* Every invocation of syncAllClients or backfillClientData occupies one   *)
(* slot of inv; each await of the code is one step of the slot, so the     *)
(* steps of two invocations interleave as the event loop allows.           *)
(*                                                                         *)
(* Reals are fixed-point integers with five decimals (1.0 is 100000).      *)
(* Time is counted in ticks of 30 minutes, tick 0 being midnight UTC of    *)
(* day 1.  Dates are day numbers.  Strings that are taken apart are        *)
(* sequences of characters.                                                *)
(***************************************************************************)
EXTENDS Integers, Sequences, FiniteSets, TLC

\* ------------------------------------------------------------------ bounds
MaxClients == 2      \* rows of the clients table
MaxDate == 1         \* calendar days 0..MaxDate; the process starts on day 1
MaxRuns == 2         \* invocations started in one behaviour
MaxProcs == 2        \* invocations in flight at once
MaxTime == 1         \* ticks the clock may advance
MaxPosts == 2       \* requests to create a client
MaxClock == 48       \* ticks the clock may advance while no invocation runs

ClientIds == 1..MaxClients
Dates == 0..MaxDate
Procs == 1..MaxProcs

\* ------------------------------------------------------- values and units
NaN == 0 - 1                 \* what parseInt / parseFloat give for a non-number
NoTime == 0 - 1              \* lastSyncCheck = null
NullId == 0                  \* client_id IS NULL
NullMsg == "null"            \* error_message IS NULL
StartTime == 1               \* Date.now() when the process starts (a tick count)
TicksPerDay == 48
Cent == 1000                 \* 0.01, the step of a DECIMAL(n, 2) column
One == 100 * Cent            \* 1.0

\* a number stored in a DECIMAL(n, 2) column: rounded to the hundredth
Decimal2(x) == ((x + (Cent \div 2)) \div Cent) * Cent

\* ------------------------------------------------------------ time zones
\* A time zone with at most one transition: the offset from UTC before it,
\* the offset after it and the instant of the transition, all in ticks.
UTC == [before |-> 0, after |-> 0, switchAt |-> 0]
\* UTC-5, then UTC-4 from 02:00 local time of day 0 (clocks go forward)
WestSpring == [before |-> 0 - 10, after |-> 0 - 8, switchAt |-> 0 - 34]
\* UTC+2, then UTC+1 from 03:00 local time of day 0 (clocks go back)
EastAutumn == [before |-> 4, after |-> 2, switchAt |-> 0 - 46]
Zones == {UTC, WestSpring, EastAutumn}

\* ------------------------------------------------------------- the schema
\* clients.name orders the roster; the names are chosen so that the order by
\* name differs from the order by id.
NameOf(id) == MaxClients + 1 - id
PropertyOf(id) == 100 + id

ClientRow(id, active) ==
    [id |-> id, name |-> NameOf(id), ga_property_id |-> PropertyOf(id),
     is_active |-> active]

\* ---------------------------------------------------- provider responses
\* A runReport response: rows, each with its metricValues in request order.
EmptyResponse == [rows |-> <<>>]
TotalRow == [metricValues |-> <<120, 80, 30, 400, 9550000, 38000>>]
OrganicRow == [metricValues |-> <<45>>]
TotalResponses == {EmptyResponse, [rows |-> <<TotalRow>>]}
OrganicResponses == {EmptyResponse, [rows |-> <<OrganicRow>>]}
ProviderErrors == {"PERMISSION_DENIED", "UNAVAILABLE"}
\* the two reports of one day with no traffic and of one day with traffic
ProviderAnswers == {<<EmptyResponse, EmptyResponse>>,
                    <<[rows |-> <<TotalRow>>], [rows |-> <<OrganicRow>>]>>}

\* bounce rates as the provider reports them: fractions of 1, also with more
\* decimals than the column keeps, and a value that is not a number
BounceFractions == {0, 1, 499, 500, 45320, 45325, 45326, 99999, 100000, 0 - 1}
BounceRow(f) == [metricValues |-> <<120, 80, 30, 400, 9550000, f>>]
BounceAnswers ==
    {<<[rows |-> <<BounceRow(f)>>], [rows |-> <<OrganicRow>>]>> :
        f \in BounceFractions}
\* what getMetadata answers: the metadata, or an error
MetadataAnswers == {"ok", "PERMISSION_DENIED", "UNAVAILABLE", "invalid_rapt"}

\* x || 0 on a number: NaN and 0 are falsy
OrZero(x) == IF x = NaN \/ x = 0 THEN 0 ELSE x

\* mutant: no case for a response without rows
parseMetricsResponseNoEmptyCase(response) ==
    IF Len(response.rows) = 0
    THEN [sessions |-> NaN, users |-> NaN, newUsers |-> NaN, pageviews |-> NaN,
          avgSessionDuration |-> NaN, bounceRate |-> NaN]
    ELSE LET metricValues == response.rows[1].metricValues
         IN [sessions |-> OrZero(metricValues[1]),
             users |-> OrZero(metricValues[2]),
             newUsers |-> OrZero(metricValues[3]),
             pageviews |-> OrZero(metricValues[4]),
             avgSessionDuration |-> OrZero(metricValues[5]),
             bounceRate |-> OrZero(IF metricValues[6] = NaN THEN NaN
                                   ELSE metricValues[6] * 100)]

\* mutant: the bounce rate is kept as a fraction
parseMetricsResponseNoPercent(response) ==
    IF Len(response.rows) = 0
    THEN [sessions |-> 0, users |-> 0, newUsers |-> 0, pageviews |-> 0,
          avgSessionDuration |-> 0, bounceRate |-> 0]
    ELSE LET metricValues == response.rows[1].metricValues
         IN [sessions |-> OrZero(metricValues[1]),
             users |-> OrZero(metricValues[2]),
             newUsers |-> OrZero(metricValues[3]),
             pageviews |-> OrZero(metricValues[4]),
             avgSessionDuration |-> OrZero(metricValues[5]),
             bounceRate |-> OrZero(metricValues[6])]

parseMetricsResponse(response) ==
    IF Len(response.rows) = 0
    THEN [sessions |-> 0, users |-> 0, newUsers |-> 0, pageviews |-> 0,
          avgSessionDuration |-> 0, bounceRate |-> 0]
    ELSE LET metricValues == response.rows[1].metricValues
         IN [sessions |-> OrZero(metricValues[1]),
             users |-> OrZero(metricValues[2]),
             newUsers |-> OrZero(metricValues[3]),
             pageviews |-> OrZero(metricValues[4]),
             avgSessionDuration |-> OrZero(metricValues[5]),
             bounceRate |-> OrZero(IF metricValues[6] = NaN THEN NaN
                                   ELSE metricValues[6] * 100)]

parseOrganicSessions(response) ==
    IF Len(response.rows) = 0 THEN 0
    ELSE OrZero(response.rows[1].metricValues[1])

\* the record fetchDailyMetrics returns from its two responses
DailyMetrics(date, totalResponse, organicResponse) ==
    LET totalMetrics == parseMetricsResponse(totalResponse)
    IN [date |-> date,
        sessions |-> totalMetrics.sessions,
        users |-> totalMetrics.users,
        newUsers |-> totalMetrics.newUsers,
        pageviews |-> totalMetrics.pageviews,
        avgSessionDuration |-> totalMetrics.avgSessionDuration,
        bounceRate |-> totalMetrics.bounceRate,
        organicSessions |-> parseOrganicSessions(organicResponse)]

\* a number written with width decimal digits, as a sequence of characters
DigitChars == <<"0", "1", "2", "3", "4", "5", "6", "7", "8", "9">>
RECURSIVE Digits(_, _)
Digits(n, width) ==
    IF width = 0 THEN <<>>
    ELSE Digits(n \div 10, width - 1) \o <<DigitChars[(n % 10) + 1]>>

\* the date dimension values of the provider: YYYYMMDD
GA4Years == {1999, 2024}
GA4Months == {1, 10, 12}
GA4Days == {1, 9, 10, 15, 31}
GA4Dates ==
    {Digits(y, 4) \o Digits(m, 2) \o Digits(d, 2) :
        y \in GA4Years, m \in GA4Months, d \in GA4Days}

\* formatGA4Date: substring(0, 4), substring(4, 6), substring(6, 8)
formatGA4Date(ga4Date) ==
    SubSeq(ga4Date, 1, 4) \o <<"-">> \o SubSeq(ga4Date, 5, 6) \o <<"-">>
        \o SubSeq(ga4Date, 7, 8)

\* the rows of a report with the date dimension: the request orders them by
\* date (orderBys), one row per day that has data, each with the six metrics
MaxRows == 2
RangeMetricValues ==
    {<<120, 80, 30, 400, 9550000, 38000>>,
     <<7, 5, 0, 9, 12345, 45326>>,
     <<0, 0, 0, 0, 0, 0>>,
     <<NaN, NaN, NaN, NaN, NaN, NaN>>}
RangeRow(day, values) ==
    [dimensionValues |-> <<Digits(2024, 4) \o Digits(1, 2) \o Digits(day, 2)>>,
     metricValues |-> values]
RECURSIVE RangeRowsFrom(_, _)
RangeRowsFrom(firstDay, length) ==
    IF length = 0 THEN {<<>>}
    ELSE UNION {{<<RangeRow(day, values)>> \o rest :
                   values \in RangeMetricValues,
                   rest \in RangeRowsFrom(day + 1, length - 1)} :
                day \in {d \in GA4Days : d >= firstDay}}
RangeResponses ==
    {[rows |-> rows] : rows \in UNION {RangeRowsFrom(1, n) : n \in 0..MaxRows}}

\* mutant: the bounce rate of a day of the range is kept as a fraction
dailyMetricsNoPercent(response) ==
    [i \in 1..Len(response.rows) |->
        LET row == response.rows[i]
            metricValues == row.metricValues
        IN [date |-> formatGA4Date(row.dimensionValues[1]),
            sessions |-> OrZero(metricValues[1]),
            users |-> OrZero(metricValues[2]),
            newUsers |-> OrZero(metricValues[3]),
            pageviews |-> OrZero(metricValues[4]),
            avgSessionDuration |-> OrZero(metricValues[5]),
            bounceRate |-> OrZero(metricValues[6])]]

\* fetchMetricsRange: response.rows.map(...), one record per row
dailyMetrics(response) ==
    [i \in 1..Len(response.rows) |->
        LET row == response.rows[i]
            metricValues == row.metricValues
        IN [date |-> formatGA4Date(row.dimensionValues[1]),
            sessions |-> OrZero(metricValues[1]),
            users |-> OrZero(metricValues[2]),
            newUsers |-> OrZero(metricValues[3]),
            pageviews |-> OrZero(metricValues[4]),
            avgSessionDuration |-> OrZero(metricValues[5]),
            bounceRate |-> OrZero(IF metricValues[6] = NaN THEN NaN
                                  ELSE metricValues[6] * 100)]]

\* the message of the error fetchDailyMetrics rethrows for a provider error
FetchErrorMessage(code) ==
    IF code = "PERMISSION_DENIED" THEN "Permission denied for property"
    ELSE IF code = "INVALID_ARGUMENT" THEN "Invalid property ID or date format"
    ELSE IF code = "RESOURCE_EXHAUSTED" THEN "GA4 API quota exceeded"
    ELSE code

NoMetrics == DailyMetrics(0, EmptyResponse, EmptyResponse)

\* ------------------------------------------------------------------ state
VARIABLES
    clients,          \* table clients: a set of rows
    daily_metrics,    \* table daily_metrics: rows in insertion order
    sync_logs,        \* table sync_logs: rows in insertion order
    now,              \* Date.now() / NOW(), in ticks
    lastSyncCheck,    \* autoSync.js module variable
    syncInProgress,   \* autoSync.js module variable
    autoPending,      \* auto-sync checks awaiting their sync_logs query: the
                      \* value of now each one captured
    inv,              \* the invocations in flight, one slot each
    runs,             \* invocations started so far
    hist,             \* what the caller of a direct call saw before the call
    prev,             \* the direct call that settled last, and what it left
    zone,             \* the time zone of the process (TZ), fixed at start
    call,             \* the last call of a ga4Service helper and its outcome
    posts,            \* the requests POST /api/clients, one record each
    clients_id_seq,   \* the sequence behind clients.id (SERIAL)
    checkError        \* history: the last auto-sync check ended in its catch

vars == <<clients, daily_metrics, sync_logs, now, lastSyncCheck, syncInProgress,
          autoPending, inv, runs, hist, prev, zone, call, posts,
          clients_id_seq, checkError>>

NoSummary ==
    [success |-> FALSE, totalClients |-> 0, successCount |-> 0,
     failureCount |-> 0, results |-> <<>>]

IdleSlot ==
    [pc |-> "idle", fn |-> "none", trigger |-> "none",
     date |-> 0, clientId |-> NullId, startDate |-> 0, endDate |-> 0,
     clients |-> <<>>, dates |-> <<>>, idx |-> 0,
     startTime |-> 0, metrics |-> NoMetrics,
     status |-> "none", error |-> NullMsg,
     results |-> <<>>, summary |-> NoSummary,
     \* history: the clients table the roster query read, whether that query
     \* failed, and one record per call of syncClientMetrics
     rosterFrom |-> {}, rosterError |-> FALSE, attempts |-> <<>>]

\* the history of one call of syncClientMetrics: the fetch it issued, what
\* the provider answered, whether the upsert and the log insert committed
NewAttempt(property, date) ==
    [property |-> property, date |-> date, fetchOk |-> FALSE,
     totalResponse |-> EmptyResponse, organicResponse |-> EmptyResponse,
     metrics |-> NoMetrics, upsertOk |-> FALSE, logged |-> FALSE]

\* the tables as they were when the direct call was made
NoHist == [daily_metrics |-> <<>>, sync_logs |-> <<>>]

NoPrev == [fn |-> "none", pc |-> "idle", date |-> 0, clients |-> <<>>,
           results |-> <<>>, summary |-> NoSummary, attempts |-> <<>>,
           before |-> NoHist, daily_metrics |-> <<>>, sync_logs |-> <<>>]

\* no ga4Service helper has been called yet
NoCall == [fn |-> "none", input |-> <<>>, outcome |-> "none", output |-> <<>>,
           threw |-> FALSE]

\* a request POST /api/clients that has not arrived yet; once answered it
\* holds the status of the response, the row it created and, as history, the
\* invocation of backfillClientData it started
Posts == 1..MaxPosts
NoPost == [pc |-> "new", gaPropertyId |-> 0, status |-> 0, client |-> NullId,
           backfill |-> 0, error |-> NullMsg]

\* the tables are empty and nothing is in flight
Setup ==
    /\ clients \in {{ClientRow(id, act[id]) : id \in ClientIds} :
                        act \in [ClientIds -> BOOLEAN]}
    /\ daily_metrics = <<>>
    /\ sync_logs = <<>>
    /\ now = StartTime
    /\ lastSyncCheck = NoTime
    /\ syncInProgress = FALSE
    /\ autoPending = {}
    /\ inv = [p \in Procs |-> IdleSlot]
    /\ runs = 0
    /\ hist = NoHist
    /\ prev = NoPrev
    /\ call = NoCall
    /\ posts = [r \in Posts |-> NoPost]
    /\ clients_id_seq = MaxClients
    /\ checkError = FALSE

\* a process whose time zone is UTC
Init == Setup /\ zone = UTC

\* a process in any of the time zones
InitZones == Setup /\ zone \in Zones

\* ------------------------------------------------------------- the tables
\* indexes of the daily_metrics rows of one (client_id, date)
RowsOf(table, clientId, date) ==
    {i \in 1..Len(table) : table[i].client_id = clientId /\ table[i].date = date}

MetricRow(clientId, date, metrics, at) ==
    [client_id |-> clientId, date |-> date,
     sessions |-> metrics.sessions, users |-> metrics.users,
     new_users |-> metrics.newUsers, pageviews |-> metrics.pageviews,
     avg_session_duration |-> Decimal2(metrics.avgSessionDuration),
     bounce_rate |-> Decimal2(metrics.bounceRate),
     organic_sessions |-> metrics.organicSessions,
     synced_at |-> at, created_at |-> at]

\* mutant: ON CONFLICT (client_id, date) DO NOTHING
UpdateRowDoesNothing(row, metrics, at) == row

\* mutant: organic_sessions is missing from the SET list
UpdateRowSkipsOrganic(row, metrics, at) ==
    [row EXCEPT !.sessions = metrics.sessions,
                !.users = metrics.users,
                !.new_users = metrics.newUsers,
                !.pageviews = metrics.pageviews,
                !.avg_session_duration = Decimal2(metrics.avgSessionDuration),
                !.bounce_rate = Decimal2(metrics.bounceRate),
                !.synced_at = at]

\* ON CONFLICT (client_id, date) DO UPDATE SET <the seven metrics>, synced_at
UpdateRow(row, metrics, at) ==
    [row EXCEPT !.sessions = metrics.sessions,
                !.users = metrics.users,
                !.new_users = metrics.newUsers,
                !.pageviews = metrics.pageviews,
                !.avg_session_duration = Decimal2(metrics.avgSessionDuration),
                !.bounce_rate = Decimal2(metrics.bounceRate),
                !.organic_sessions = metrics.organicSessions,
                !.synced_at = at]

\* mutant: a plain INSERT, no ON CONFLICT clause and no unique constraint
InsertDailyMetrics(table, clientId, date, metrics, at) ==
    Append(table, MetricRow(clientId, date, metrics, at))

\* INSERT INTO daily_metrics ... ON CONFLICT (client_id, date) DO UPDATE SET ...
UpsertDailyMetrics(table, clientId, date, metrics, at) ==
    IF RowsOf(table, clientId, date) = {}
    THEN Append(table, MetricRow(clientId, date, metrics, at))
    ELSE [i \in 1..Len(table) |->
            IF i \in RowsOf(table, clientId, date)
            THEN UpdateRow(table[i], metrics, at)
            ELSE table[i]]

\* mutant: a failed attempt is logged with status partial
LogRowPartial(clientId, syncDate, status, recordsSynced, errorMessage, executionTime, at) ==
    [client_id |-> clientId, sync_date |-> syncDate,
     status |-> IF status = "failed" THEN "partial" ELSE status,
     records_synced |-> recordsSynced, error_message |-> errorMessage,
     execution_time_ms |-> executionTime, created_at |-> at]

\* INSERT INTO sync_logs (...) VALUES (...)
LogRow(clientId, syncDate, status, recordsSynced, errorMessage, executionTime, at) ==
    [client_id |-> clientId, sync_date |-> syncDate, status |-> status,
     records_synced |-> recordsSynced, error_message |-> errorMessage,
     execution_time_ms |-> executionTime, created_at |-> at]

\* the foreign keys of daily_metrics.client_id and sync_logs.client_id
ClientExists(id) == \E c \in clients : c.id = id

\* mutant: ORDER BY id
RECURSIVE OrderById(_)
OrderById(rows) ==
    IF rows = {} THEN <<>>
    ELSE LET first == CHOOSE r \in rows : \A o \in rows : r.id <= o.id
         IN <<[id |-> first.id, name |-> first.name,
               ga_property_id |-> first.ga_property_id]>>
            \o OrderById(rows \ {first})

\* SELECT id, name, ga_property_id FROM clients WHERE is_active ORDER BY name
RECURSIVE OrderByName(_)
OrderByName(rows) ==
    IF rows = {} THEN <<>>
    ELSE LET first == CHOOSE r \in rows : \A o \in rows : r.name <= o.name
         IN <<[id |-> first.id, name |-> first.name,
               ga_property_id |-> first.ga_property_id]>>
            \o OrderByName(rows \ {first})

\* mutant: the roster query without WHERE is_active = true
AllClients == OrderByName(clients)

ActiveClients == OrderByName({c \in clients : c.is_active})

\* SELECT id, name, ga_property_id FROM clients WHERE id = $1
ClientById(id) == OrderByName({c \in clients : c.id = id})

\* ------------------------------------------------------------ date helpers
\* d.toISOString().split('T')[0]: the calendar day of a time, in UTC
DateOf(t) == 1 + (t \div TicksPerDay)

\* new Date('YYYY-MM-DD'): midnight UTC of the day
DateParse(date) == (date - 1) * TicksPerDay

\* the local time of a time, and the time of a local time; a local time that
\* the transition repeats or skips is read with the offset before it
OffsetAt(t) == IF t < zone.switchAt THEN zone.before ELSE zone.after
LocalTime(t) == t + OffsetAt(t)
UTCOf(local) ==
    IF local - zone.before < zone.switchAt \/ local - zone.after < zone.switchAt
    THEN local - zone.before
    ELSE local - zone.after

\* d.setDate(d.getDate() + days): the same local time of day, days later
setDate(t, days) == UTCOf(LocalTime(t) + days * TicksPerDay)

\* getYesterdayDate(): setDate(getDate() - 1) on the current time
getYesterdayDate == DateOf(setDate(now, 0 - 1))

\* the loop of generateDateRange from the time current
RECURSIVE DateRangeFrom(_, _)
DateRangeFrom(current, end) ==
    IF current <= end
    THEN <<DateOf(current)>> \o DateRangeFrom(setDate(current, 1), end)
    ELSE <<>>

generateDateRange(startDate, endDate) ==
    DateRangeFrom(DateParse(startDate), DateParse(endDate))

\* ------------------------------------------------ starting an invocation
\* a new invocation takes the first free slot
Idle(p) == inv[p].pc = "idle" /\ \A q \in 1..(p - 1) : inv[q].pc # "idle"

\* the call of syncAllClients(date): the slot runs up to its first await,
\* the roster query
CallSyncAllClients(p, trigger, date) ==
    /\ Idle(p)
    /\ runs < MaxRuns
    /\ runs' = runs + 1
    /\ inv' = [inv EXCEPT ![p] =
                 [IdleSlot EXCEPT !.pc = "roster", !.fn = "syncAllClients",
                                  !.trigger = trigger, !.date = date]]

\* the call of backfillClientData(clientId, startDate, endDate), up to its
\* first await, the client query
CallBackfillClientData(p, trigger, clientId, startDate, endDate) ==
    /\ Idle(p)
    /\ runs < MaxRuns
    /\ runs' = runs + 1
    /\ inv' = [inv EXCEPT ![p] =
                 [IdleSlot EXCEPT !.pc = "client", !.fn = "backfillClientData",
                                  !.trigger = trigger, !.clientId = clientId,
                                  !.startDate = startDate, !.endDate = endDate,
                                  !.dates = generateDateRange(startDate, endDate)]]

\* syncYesterday()
CallSyncYesterday(p, trigger) == CallSyncAllClients(p, trigger, getYesterdayDate)

\* ----------------------------------------------------------- the triggers
\* dailySync.js: the cron callback
CronJob(p) ==
    /\ CallSyncYesterday(p, "cron")
    /\ UNCHANGED <<clients, daily_metrics, sync_logs, now, lastSyncCheck,
                   syncInProgress, autoPending, hist, prev, zone, call, posts,
                   clients_id_seq,
                   checkError>>

\* dailySync.js: runSyncNow()
RunSyncNow(p) ==
    /\ CallSyncYesterday(p, "runSyncNow")
    /\ UNCHANGED <<clients, daily_metrics, sync_logs, now, lastSyncCheck,
                   syncInProgress, autoPending, hist, prev, zone, call, posts,
                   clients_id_seq,
                   checkError>>

\* POST /api/metrics/sync: admins only; the sync runs in the background
PostSync(p, role) ==
    /\ role = "admin"
    /\ CallSyncYesterday(p, "manual")
    /\ UNCHANGED <<clients, daily_metrics, sync_logs, now, lastSyncCheck,
                   syncInProgress, autoPending, hist, prev, zone, call, posts,
                   clients_id_seq,
                   checkError>>

\* a direct call of the exported syncAllClients(date)
SyncAllClientsCall(p, date) ==
    /\ CallSyncAllClients(p, "direct", date)
    /\ hist' = [daily_metrics |-> daily_metrics, sync_logs |-> sync_logs]
    /\ UNCHANGED <<clients, daily_metrics, sync_logs, now, lastSyncCheck,
                   syncInProgress, autoPending, prev, zone, call, posts,
                   clients_id_seq,
                   checkError>>

\* backfill-new-client.js and the backfill-all script: a direct call of
\* backfillClientData
BackfillCall(p, clientId, startDate, endDate) ==
    /\ CallBackfillClientData(p, "script", clientId, startDate, endDate)
    /\ UNCHANGED <<clients, daily_metrics, sync_logs, now, lastSyncCheck,
                   syncInProgress, autoPending, hist, prev, zone, call, posts,
                   clients_id_seq,
                   checkError>>

\* a direct call of the exported backfillClientData
BackfillClientDataCall(p, clientId, startDate, endDate) ==
    /\ CallBackfillClientData(p, "direct", clientId, startDate, endDate)
    /\ hist' = [daily_metrics |-> daily_metrics, sync_logs |-> sync_logs]
    /\ UNCHANGED <<clients, daily_metrics, sync_logs, now, lastSyncCheck,
                   syncInProgress, autoPending, prev, zone, call, posts,
                   clients_id_seq,
                   checkError>>

\* autoSyncMiddleware up to its await: the path filter, the 30-minute
\* throttle (one tick), lastSyncCheck = now, and the sync_logs query is sent
CheckInterval == 1
AutoSyncCheck(path) ==
    /\ path \in {"/metrics", "/clients"}
    /\ ~(lastSyncCheck # NoTime /\ now - lastSyncCheck < CheckInterval)
    /\ lastSyncCheck' = now
    /\ autoPending' = autoPending \cup {now}
    /\ UNCHANGED <<clients, daily_metrics, sync_logs, now, syncInProgress,
                   inv, runs, hist, prev, zone, call, posts,
                   clients_id_seq,
                   checkError>>

\* SELECT MAX(created_at) FROM sync_logs WHERE status = 'success'
LastSuccessfulSync ==
    LET times == {sync_logs[i].created_at : i \in
                    {j \in 1..Len(sync_logs) : sync_logs[j].status = "success"}}
    IN IF times = {} THEN NoTime
       ELSE CHOOSE t \in times : \A u \in times : u <= t

StaleTicks == 24

\* mutant: triggerBackgroundSync without the guard
triggerBackgroundSyncUnguarded(p) ==
    /\ syncInProgress' = TRUE
    /\ CallSyncYesterday(p, "auto")

\* triggerBackgroundSync(): skipped when a sync it started is in flight
triggerBackgroundSync(p) ==
    IF syncInProgress
    THEN UNCHANGED <<syncInProgress, inv, runs>>
    ELSE /\ syncInProgress' = TRUE
         /\ CallSyncYesterday(p, "auto")

\* mutant: a last sync of exactly twelve hours ago already triggers
AutoSyncDecideAtTwelve(p, t, queryFails) ==
    /\ t \in autoPending
    /\ autoPending' = autoPending \ {t}
    /\ IF queryFails
       THEN UNCHANGED <<syncInProgress, inv, runs>>
       ELSE LET lastSync == LastSuccessfulSync
            IN IF lastSync = NoTime \/ t - lastSync >= StaleTicks
               THEN triggerBackgroundSync(p)
               ELSE UNCHANGED <<syncInProgress, inv, runs>>
    /\ checkError' = queryFails
    /\ UNCHANGED <<clients, daily_metrics, sync_logs, now, lastSyncCheck,
                   hist, prev, zone, call, posts, clients_id_seq>>

\* autoSyncMiddleware after its await: the query failed (caught), or its
\* answer decides whether triggerBackgroundSync is called
AutoSyncDecide(p, t, queryFails) ==
    /\ t \in autoPending
    /\ autoPending' = autoPending \ {t}
    /\ IF queryFails
       THEN UNCHANGED <<syncInProgress, inv, runs>>
       ELSE LET lastSync == LastSuccessfulSync
            IN IF lastSync = NoTime \/ t - lastSync > StaleTicks
               THEN triggerBackgroundSync(p)
               ELSE UNCHANGED <<syncInProgress, inv, runs>>
    /\ checkError' = queryFails
    /\ UNCHANGED <<clients, daily_metrics, sync_logs, now, lastSyncCheck,
                   hist, prev, zone, call, posts, clients_id_seq>>

\* ------------------------------------------------- the invocation's steps
Slot(p) == inv[p]

\* the client and the date of the current call of syncClientMetrics
CurClient(p) ==
    IF Slot(p).fn = "syncAllClients" THEN Slot(p).clients[Slot(p).idx]
    ELSE Slot(p).clients[1]
CurDate(p) ==
    IF Slot(p).fn = "syncAllClients" THEN Slot(p).date
    ELSE Slot(p).dates[Slot(p).idx]

\* the property and the date of the i-th call of fetchDailyMetrics
FetchTarget(s, i) ==
    IF s.fn = "syncAllClients"
    THEN [property |-> s.clients[i].ga_property_id, date |-> s.date]
    ELSE [property |-> s.clients[1].ga_property_id, date |-> s.dates[i]]

\* the number of iterations of the loop
LoopLength(s) ==
    IF s.fn = "syncAllClients" THEN Len(s.clients) ELSE Len(s.dates)

\* mutant: success is true whatever the tenants' outcomes
SyncSummaryAlwaysSuccess(date, rosterClients, results) ==
    [success |-> TRUE,
     totalClients |-> Len(rosterClients),
     successCount |-> Cardinality({i \in 1..Len(results) : results[i].success}),
     failureCount |-> Cardinality({i \in 1..Len(results) : ~results[i].success}),
     results |-> results]

\* mutant: successCount counts every result
SyncSummaryCountsAll(date, rosterClients, results) ==
    [success |-> \A i \in 1..Len(results) : results[i].success,
     totalClients |-> Len(rosterClients),
     successCount |-> Len(results),
     failureCount |-> Cardinality({i \in 1..Len(results) : ~results[i].success}),
     results |-> results]

\* the object syncAllClients returns
SyncSummary(date, rosterClients, results) ==
    LET successCount == Cardinality({i \in 1..Len(results) : results[i].success})
        failureCount == Cardinality({i \in 1..Len(results) : ~results[i].success})
    IN [success |-> failureCount = 0,
        totalClients |-> Len(rosterClients),
        successCount |-> successCount,
        failureCount |-> failureCount,
        results |-> results]

\* the object backfillClientData returns (totalDays is its totalClients)
BackfillSummary(dates, results) ==
    [success |-> TRUE,
     totalClients |-> Len(dates),
     successCount |-> Cardinality({i \in 1..Len(results) : results[i].success}),
     failureCount |-> Cardinality({i \in 1..Len(results) : ~results[i].success}),
     results |-> results]

\* syncAllClients: the roster query answers.  A failed query is rethrown; an
\* empty roster returns the zero summary; otherwise the loop starts with the
\* first client and syncClientMetrics runs up to its fetch.
LoadRoster(p, queryFails) ==
    /\ Slot(p).pc = "roster"
    /\ inv' = [inv EXCEPT ![p] =
                 IF queryFails THEN [@ EXCEPT !.pc = "threw", !.rosterError = TRUE]
                 ELSE IF Len(ActiveClients) = 0
                 THEN [@ EXCEPT !.pc = "returned", !.rosterFrom = clients,
                                !.summary = [success |-> TRUE, totalClients |-> 0,
                                             successCount |-> 0, failureCount |-> 0,
                                             results |-> <<>>]]
                 ELSE [@ EXCEPT !.pc = "fetch", !.clients = ActiveClients,
                                !.idx = 1, !.startTime = now,
                                !.rosterFrom = clients,
                                !.attempts =
                                    <<NewAttempt(ActiveClients[1].ga_property_id,
                                                 Slot(p).date)>>]]
    /\ UNCHANGED <<clients, daily_metrics, sync_logs, now, lastSyncCheck,
                   syncInProgress, autoPending, runs, hist, prev, zone, call, posts,
                   clients_id_seq,
                   checkError>>

\* backfillClientData: the client query answers.  A failed query and an
\* unknown client throw; an empty range returns at once.
LoadClient(p, queryFails) ==
    /\ Slot(p).pc = "client"
    /\ LET found == ClientById(Slot(p).clientId)
       IN inv' = [inv EXCEPT ![p] =
                 IF queryFails \/ Len(found) = 0
                 THEN [@ EXCEPT !.pc = "threw", !.rosterFrom = clients,
                                !.rosterError = queryFails]
                 ELSE IF Len(@.dates) = 0
                 THEN [@ EXCEPT !.pc = "returned", !.clients = found,
                                !.rosterFrom = clients,
                                !.summary = BackfillSummary(<<>>, <<>>)]
                 ELSE [@ EXCEPT !.pc = "fetch", !.clients = found,
                                !.idx = 1, !.startTime = now,
                                !.rosterFrom = clients,
                                !.attempts =
                                    <<NewAttempt(found[1].ga_property_id,
                                                 Slot(p).dates[1])>>]]
    /\ UNCHANGED <<clients, daily_metrics, sync_logs, now, lastSyncCheck,
                   syncInProgress, autoPending, runs, hist, prev, zone, call, posts,
                   clients_id_seq,
                   checkError>>

\* fetchDailyMetrics answers: both reports arrived, or one of the two calls
\* failed with a provider error, which syncClientMetrics catches
FetchOk(p, totalResponse, organicResponse) ==
    /\ Slot(p).pc = "fetch"
    /\ inv' = [inv EXCEPT ![p] =
                 [@ EXCEPT !.pc = "upsert",
                           !.metrics = DailyMetrics(CurDate(p), totalResponse,
                                                    organicResponse),
                           !.attempts[Len(@.attempts)].fetchOk = TRUE,
                           !.attempts[Len(@.attempts)].totalResponse = totalResponse,
                           !.attempts[Len(@.attempts)].organicResponse =
                               organicResponse,
                           !.attempts[Len(@.attempts)].metrics =
                               DailyMetrics(CurDate(p), totalResponse,
                                            organicResponse)]]
    /\ UNCHANGED <<clients, daily_metrics, sync_logs, now, lastSyncCheck,
                   syncInProgress, autoPending, runs, hist, prev, zone, call, posts,
                   clients_id_seq,
                   checkError>>

FetchFails(p, code) ==
    /\ Slot(p).pc = "fetch"
    /\ inv' = [inv EXCEPT ![p] =
                 [@ EXCEPT !.pc = "log", !.status = "failed",
                           !.error = FetchErrorMessage(code)]]
    /\ UNCHANGED <<clients, daily_metrics, sync_logs, now, lastSyncCheck,
                   syncInProgress, autoPending, runs, hist, prev, zone, call, posts,
                   clients_id_seq,
                   checkError>>

\* mutant: daily_metrics.client_id without its foreign key
UpsertOkNoForeignKey(p) ==
    /\ Slot(p).pc = "upsert"
    /\ daily_metrics' = UpsertDailyMetrics(daily_metrics, CurClient(p).id,
                                           CurDate(p), Slot(p).metrics, now)
    /\ inv' = [inv EXCEPT ![p] = [@ EXCEPT !.pc = "log", !.status = "success",
                                           !.error = NullMsg,
                                           !.attempts[Len(@.attempts)].upsertOk = TRUE]]
    /\ UNCHANGED <<clients, sync_logs, now, lastSyncCheck, syncInProgress,
                   autoPending, runs, hist, prev, zone, call, posts,
                   clients_id_seq, checkError>>

\* the upsert statement commits (the client row must exist: foreign key)
UpsertOk(p) ==
    /\ Slot(p).pc = "upsert"
    /\ ClientExists(CurClient(p).id)
    /\ daily_metrics' = UpsertDailyMetrics(daily_metrics, CurClient(p).id,
                                           CurDate(p), Slot(p).metrics, now)
    /\ inv' = [inv EXCEPT ![p] = [@ EXCEPT !.pc = "log", !.status = "success",
                                           !.error = NullMsg,
                                           !.attempts[Len(@.attempts)].upsertOk = TRUE]]
    /\ UNCHANGED <<clients, sync_logs, now, lastSyncCheck, syncInProgress,
                   autoPending, runs, hist, prev, zone, call, posts,
                   clients_id_seq,
                   checkError>>

\* mutant: the error of the upsert is rethrown out of syncAllClients
UpsertFailsRethrows(p) ==
    /\ Slot(p).pc = "upsert"
    /\ inv' = [inv EXCEPT ![p] = [@ EXCEPT !.pc = "threw", !.status = "failed",
                                           !.error = "database error"]]
    /\ UNCHANGED <<clients, daily_metrics, sync_logs, now, lastSyncCheck,
                   syncInProgress, autoPending, runs, hist, prev, zone, call, posts,
                   clients_id_seq,
                   checkError>>

\* mutant: the statement that fails has written its row
UpsertFailsAfterWrite(p) ==
    /\ Slot(p).pc = "upsert"
    /\ daily_metrics' = UpsertDailyMetrics(daily_metrics, CurClient(p).id,
                                           CurDate(p), Slot(p).metrics, now)
    /\ inv' = [inv EXCEPT ![p] = [@ EXCEPT !.pc = "log", !.status = "failed",
                                           !.error = "database error"]]
    /\ UNCHANGED <<clients, sync_logs, now, lastSyncCheck, syncInProgress,
                   autoPending, runs, hist, prev, zone, call, posts,
                   clients_id_seq, checkError>>

\* the upsert statement fails: the catch of syncClientMetrics takes over
UpsertFails(p) ==
    /\ Slot(p).pc = "upsert"
    /\ inv' = [inv EXCEPT ![p] = [@ EXCEPT !.pc = "log", !.status = "failed",
                                           !.error = "database error"]]
    /\ UNCHANGED <<clients, daily_metrics, sync_logs, now, lastSyncCheck,
                   syncInProgress, autoPending, runs, hist, prev, zone, call, posts,
                   clients_id_seq,
                   checkError>>

\* what syncClientMetrics returns
SyncResult(p) ==
    IF Slot(p).status = "success"
    THEN [success |-> TRUE, clientId |-> CurClient(p).id, date |-> CurDate(p),
          metrics |-> Slot(p).metrics, error |-> NullMsg]
    ELSE [success |-> FALSE, clientId |-> CurClient(p).id, date |-> CurDate(p),
          metrics |-> NoMetrics, error |-> Slot(p).error]

\* mutant: only a successful attempt is logged
LogSyncOnSuccessOnly(p, insertFails) ==
    /\ Slot(p).pc = "log"
    /\ insertFails \/ ClientExists(CurClient(p).id)
    /\ sync_logs' =
         IF insertFails \/ Slot(p).status # "success" THEN sync_logs
         ELSE Append(sync_logs,
                     LogRow(CurClient(p).id, CurDate(p), Slot(p).status, 1,
                            Slot(p).error, now - Slot(p).startTime, now))
    /\ inv' = [inv EXCEPT ![p] =
                 [@ EXCEPT !.pc = "sleep",
                           !.results = Append(@, SyncResult(p)),
                           !.attempts[Len(@.attempts)].logged = ~insertFails]]
    /\ UNCHANGED <<clients, daily_metrics, now, lastSyncCheck, syncInProgress,
                   autoPending, runs, hist, prev, zone, call, posts,
                   clients_id_seq,
                   checkError>>

\* mutant: logSync has no try / catch, the error of its insert leaves
\* syncClientMetrics and syncAllClients
LogSyncRethrows(p, insertFails) ==
    /\ Slot(p).pc = "log"
    /\ insertFails \/ ClientExists(CurClient(p).id)
    /\ sync_logs' =
         IF insertFails THEN sync_logs
         ELSE Append(sync_logs,
                     LogRow(CurClient(p).id, CurDate(p), Slot(p).status,
                            IF Slot(p).status = "success" THEN 1 ELSE 0,
                            Slot(p).error, now - Slot(p).startTime, now))
    /\ inv' = [inv EXCEPT ![p] =
                 IF insertFails THEN [@ EXCEPT !.pc = "threw"]
                 ELSE [@ EXCEPT !.pc = "sleep",
                                !.results = Append(@, SyncResult(p)),
                                !.attempts[Len(@.attempts)].logged = TRUE]]
    /\ UNCHANGED <<clients, daily_metrics, now, lastSyncCheck, syncInProgress,
                   autoPending, runs, hist, prev, zone, call, posts,
                   clients_id_seq,
                   checkError>>

\* logSync: the insert into sync_logs, whose failure is swallowed; then
\* syncClientMetrics returns and the loop pushes the result and sleeps
LogSync(p, insertFails) ==
    /\ Slot(p).pc = "log"
    /\ insertFails \/ ClientExists(CurClient(p).id)
    /\ sync_logs' =
         IF insertFails THEN sync_logs
         ELSE Append(sync_logs,
                     LogRow(CurClient(p).id, CurDate(p), Slot(p).status,
                            IF Slot(p).status = "success" THEN 1 ELSE 0,
                            Slot(p).error, now - Slot(p).startTime, now))
    /\ inv' = [inv EXCEPT ![p] =
                 [@ EXCEPT !.pc = "sleep",
                           !.results = Append(@, SyncResult(p)),
                           !.attempts[Len(@.attempts)].logged = ~insertFails]]
    /\ UNCHANGED <<clients, daily_metrics, now, lastSyncCheck, syncInProgress,
                   autoPending, runs, hist, prev, zone, call, posts,
                   clients_id_seq,
                   checkError>>

\* mutant: the loop stops at the first failed tenant
WakeStopsOnFailure(p) ==
    /\ Slot(p).pc = "sleep"
    /\ inv' = [inv EXCEPT ![p] =
                 IF @.idx < LoopLength(@) /\ @.results[Len(@.results)].success
                 THEN [@ EXCEPT !.pc = "fetch", !.idx = @ + 1,
                                !.startTime = now, !.metrics = NoMetrics,
                                !.status = "none", !.error = NullMsg,
                                !.attempts =
                                    Append(@, NewAttempt(
                                        FetchTarget(Slot(p), Slot(p).idx + 1).property,
                                        FetchTarget(Slot(p), Slot(p).idx + 1).date))]
                 ELSE [@ EXCEPT !.pc = "returned",
                                !.summary =
                                    IF Slot(p).fn = "syncAllClients"
                                    THEN SyncSummary(Slot(p).date, Slot(p).clients,
                                                     Slot(p).results)
                                    ELSE BackfillSummary(Slot(p).dates,
                                                         Slot(p).results)]]
    /\ UNCHANGED <<clients, daily_metrics, sync_logs, now, lastSyncCheck,
                   syncInProgress, autoPending, runs, hist, prev, zone, call, posts,
                   clients_id_seq,
                   checkError>>

\* the sleep ends: the next iteration starts, or the loop is over and the
\* summary is returned
Wake(p) ==
    /\ Slot(p).pc = "sleep"
    /\ inv' = [inv EXCEPT ![p] =
                 IF @.idx < LoopLength(@)
                 THEN [@ EXCEPT !.pc = "fetch", !.idx = @ + 1,
                                !.startTime = now, !.metrics = NoMetrics,
                                !.status = "none", !.error = NullMsg,
                                !.attempts =
                                    Append(@, NewAttempt(
                                        FetchTarget(Slot(p), Slot(p).idx + 1).property,
                                        FetchTarget(Slot(p), Slot(p).idx + 1).date))]
                 ELSE [@ EXCEPT !.pc = "returned",
                                !.summary =
                                    IF Slot(p).fn = "syncAllClients"
                                    THEN SyncSummary(Slot(p).date, Slot(p).clients,
                                                     Slot(p).results)
                                    ELSE BackfillSummary(Slot(p).dates,
                                                         Slot(p).results)]]
    /\ UNCHANGED <<clients, daily_metrics, sync_logs, now, lastSyncCheck,
                   syncInProgress, autoPending, runs, hist, prev, zone, call, posts,
                   clients_id_seq,
                   checkError>>

\* mutant: the catch of triggerBackgroundSync leaves the flag set
SettleKeepsFlagOnReject(p) ==
    /\ Slot(p).pc \in {"returned", "threw"}
    /\ syncInProgress' = IF Slot(p).trigger = "auto" /\ Slot(p).pc = "returned"
                          THEN FALSE ELSE syncInProgress
    /\ prev' = prev
    /\ inv' = [inv EXCEPT ![p] = IdleSlot]
    /\ UNCHANGED <<clients, daily_metrics, sync_logs, now, lastSyncCheck,
                   autoPending, runs, hist, zone, call, posts,
                   clients_id_seq, checkError>>

\* the promise settles and the caller's then / catch runs: the auto-sync
\* trigger clears its flag, the others only print
Settle(p) ==
    /\ Slot(p).pc \in {"returned", "threw"}
    /\ syncInProgress' = IF Slot(p).trigger = "auto" THEN FALSE ELSE syncInProgress
    /\ prev' = IF Slot(p).trigger = "direct" /\ Slot(p).fn = "syncAllClients"
                THEN [fn |-> Slot(p).fn, pc |-> Slot(p).pc, date |-> Slot(p).date,
                      clients |-> Slot(p).clients, results |-> Slot(p).results,
                      summary |-> Slot(p).summary, attempts |-> Slot(p).attempts,
                      before |-> hist, daily_metrics |-> daily_metrics,
                      sync_logs |-> sync_logs]
                ELSE prev
    /\ inv' = [inv EXCEPT ![p] = IdleSlot]
    /\ UNCHANGED <<clients, daily_metrics, sync_logs, now, lastSyncCheck,
                   autoPending, runs, hist, zone, call, posts,
                   clients_id_seq,
                   checkError>>

\* ------------------------------------------------------- the environment
Tick ==
    /\ now < StartTime + MaxTime
    /\ now' = now + 1
    /\ UNCHANGED <<clients, daily_metrics, sync_logs, lastSyncCheck,
                   syncInProgress, autoPending, inv, runs, hist, prev, zone, call, posts,
                   clients_id_seq,
                   checkError>>

\* the process waits for its next request or for the cron job: d ticks pass
ClockAdvance(d) ==
    /\ now + d <= StartTime + MaxClock
    /\ now' = now + d
    /\ UNCHANGED <<clients, daily_metrics, sync_logs, lastSyncCheck,
                   syncInProgress, autoPending, inv, runs, hist, prev, zone, call, posts,
                   clients_id_seq,
                   checkError>>

\* PUT /api/clients/:id with isActive, and the soft delete of DELETE /:id
SetActive(id, isActive) ==
    /\ \E c \in clients : c.id = id /\ c.is_active # isActive
    /\ clients' = {IF c.id = id THEN [c EXCEPT !.is_active = isActive] ELSE c :
                     c \in clients}
    /\ UNCHANGED <<daily_metrics, sync_logs, now, lastSyncCheck, syncInProgress,
                   autoPending, inv, runs, hist, prev, zone, call, posts,
                   clients_id_seq,
                   checkError>>

\* mutant: sync_logs.client_id with ON DELETE CASCADE
HardDeleteCascadesLogs(id) ==
    /\ ClientExists(id)
    /\ clients' = {c \in clients : c.id # id}
    /\ daily_metrics' = SelectSeq(daily_metrics, LAMBDA r : r.client_id # id)
    /\ sync_logs' = SelectSeq(sync_logs, LAMBDA r : r.client_id # id)
    /\ UNCHANGED <<now, lastSyncCheck, syncInProgress, autoPending, inv, runs,
                   hist, prev, zone, call, posts,
                   clients_id_seq,
                   checkError>>

\* DELETE /api/clients/:id?hard=true: the client row goes, its daily_metrics
\* rows go with it (ON DELETE CASCADE) and its sync_logs rows lose their
\* reference (ON DELETE SET NULL); an unknown id is answered 404
HardDelete(id) ==
    /\ ClientExists(id)
    /\ clients' = {c \in clients : c.id # id}
    /\ daily_metrics' = SelectSeq(daily_metrics, LAMBDA r : r.client_id # id)
    /\ sync_logs' = [j \in 1..Len(sync_logs) |->
                       IF sync_logs[j].client_id = id
                       THEN [sync_logs[j] EXCEPT !.client_id = NullId]
                       ELSE sync_logs[j]]
    /\ UNCHANGED <<now, lastSyncCheck, syncInProgress, autoPending, inv, runs,
                   hist, prev, zone, call, posts,
                   clients_id_seq,
                   checkError>>

\* ------------------------------------------------- POST /api/clients
\* the window of the backfill a creation starts, in days
BackfillWindow == 30

\* the answer to a request
Answer(r, status, error) ==
    posts' = [posts EXCEPT ![r] = [@ EXCEPT !.pc = "done", !.status = status,
                                            !.error = error]]

\* the request arrives: express-validator rejects it with 400, or the handler
\* runs up to its first await, validatePropertyAccess
PostClient(r, gaPropertyId, valid) ==
    /\ posts[r].pc = "new"
    /\ posts' = [posts EXCEPT ![r] =
                   IF valid
                   THEN [@ EXCEPT !.pc = "validate",
                                  !.gaPropertyId = gaPropertyId]
                   ELSE [@ EXCEPT !.pc = "done", !.status = 400,
                                  !.gaPropertyId = gaPropertyId,
                                  !.error = "Invalid input"]]
    /\ UNCHANGED <<clients, daily_metrics, sync_logs, now, lastSyncCheck,
                   syncInProgress, autoPending, inv, runs, hist, prev, zone,
                   call, clients_id_seq,
                   checkError>>

\* validatePropertyAccess has answered: without access the answer is 400,
\* with access the query for an existing row is issued
PostClientValidated(r, answer) ==
    /\ posts[r].pc = "validate"
    /\ IF answer = "ok"
       THEN posts' = [posts EXCEPT ![r] = [@ EXCEPT !.pc = "existing"]]
       ELSE Answer(r, 400, "Cannot access GA4 property")
    /\ UNCHANGED <<clients, daily_metrics, sync_logs, now, lastSyncCheck,
                   syncInProgress, autoPending, inv, runs, hist, prev, zone,
                   call, clients_id_seq,
                   checkError>>

\* SELECT id FROM clients WHERE ga_property_id = $1 has answered: a row means
\* 400, no row means the INSERT is issued; a failed query is caught, 500
PostClientChecked(r, queryFails) ==
    /\ posts[r].pc = "existing"
    /\ IF queryFails
       THEN Answer(r, 500, "Failed to create client")
       ELSE IF \E c \in clients : c.ga_property_id = posts[r].gaPropertyId
       THEN Answer(r, 400, "This GA4 property is already registered")
       ELSE posts' = [posts EXCEPT ![r] = [@ EXCEPT !.pc = "insert"]]
    /\ UNCHANGED <<clients, daily_metrics, sync_logs, now, lastSyncCheck,
                   syncInProgress, autoPending, inv, runs, hist, prev, zone,
                   call, clients_id_seq,
                   checkError>>

\* mutant: clients.ga_property_id without UNIQUE
NoUniqueViolation(gaPropertyId) == FALSE

\* clients.ga_property_id is UNIQUE: the row would be a second one
UniqueViolation(gaPropertyId) ==
    \E c \in clients : c.ga_property_id = gaPropertyId

\* the row INSERT INTO clients (name, ga_property_id, timezone) makes: the id
\* from the sequence, is_active by default
NewClientRow(id, gaPropertyId) ==
    [id |-> id, name |-> NameOf(id), ga_property_id |-> gaPropertyId,
     is_active |-> TRUE]

\* the INSERT is refused by the UNIQUE constraint: the sequence has advanced,
\* the error is caught and answered 500
PostClientInsertFails(r) ==
    /\ posts[r].pc = "insert"
    /\ UniqueViolation(posts[r].gaPropertyId)
    /\ clients_id_seq' = clients_id_seq + 1
    /\ Answer(r, 500, "Failed to create client")
    /\ UNCHANGED <<clients, daily_metrics, sync_logs, now, lastSyncCheck,
                   syncInProgress, autoPending, inv, runs, hist, prev, zone,
                   call,
                   checkError>>

\* the INSERT has committed: the handler starts backfillClientData for the
\* new client over the BackfillWindow days that end yesterday, does not
\* await it, and answers 201
PostClientCreated(r, p) ==
    LET id == clients_id_seq + 1
        endStr == DateOf(setDate(now, 0 - 1))
        startStr == DateOf(setDate(now, 0 - BackfillWindow))
    IN /\ posts[r].pc = "insert"
       /\ ~UniqueViolation(posts[r].gaPropertyId)
       /\ clients_id_seq' = id
       /\ clients' = clients \cup {NewClientRow(id, posts[r].gaPropertyId)}
       /\ CallBackfillClientData(p, "create", id, startStr, endStr)
       /\ posts' = [posts EXCEPT ![r] = [@ EXCEPT !.pc = "done", !.status = 201,
                                                 !.client = id, !.backfill = p]]
       /\ UNCHANGED <<daily_metrics, sync_logs, now, lastSyncCheck,
                      syncInProgress, autoPending, hist, prev, zone, call,
                   checkError>>

\* ------------------------------------------------- ga4Service helpers
\* a call of formatGA4Date
FormatGA4Date(ga4Date) ==
    /\ call' = [fn |-> "formatGA4Date", input |-> ga4Date,
                outcome |-> "ok", output |-> formatGA4Date(ga4Date),
                threw |-> FALSE]
    /\ UNCHANGED <<clients, daily_metrics, sync_logs, now, lastSyncCheck,
                   syncInProgress, autoPending, inv, runs, hist, prev, zone, posts,
                   clients_id_seq,
                   checkError>>

\* validatePropertyAccess(propertyId): true when getMetadata answers, false
\* from the catch, whatever the error
ValidatePropertyAccess(propertyId, answer) ==
    /\ call' = [fn |-> "validatePropertyAccess", input |-> propertyId,
                outcome |-> answer, output |-> (answer = "ok"),
                threw |-> FALSE]
    /\ UNCHANGED <<clients, daily_metrics, sync_logs, now, lastSyncCheck,
                   syncInProgress, autoPending, inv, runs, hist, prev, zone, posts,
                   clients_id_seq,
                   checkError>>

\* fetchMetricsRange(propertyId, startDate, endDate): the report arrives and
\* its rows are mapped, or runReport fails and the error is rethrown
FetchMetricsRange(propertyId, response) ==
    /\ call' = [fn |-> "fetchMetricsRange", input |-> response,
                outcome |-> "ok", output |-> dailyMetrics(response),
                threw |-> FALSE]
    /\ UNCHANGED <<clients, daily_metrics, sync_logs, now, lastSyncCheck,
                   syncInProgress, autoPending, inv, runs, hist, prev, zone, posts,
                   clients_id_seq,
                   checkError>>

FetchMetricsRangeFails(propertyId, code) ==
    /\ call' = [fn |-> "fetchMetricsRange", input |-> propertyId,
                outcome |-> code, output |-> <<>>, threw |-> TRUE]
    /\ UNCHANGED <<clients, daily_metrics, sync_logs, now, lastSyncCheck,
                   syncInProgress, autoPending, inv, runs, hist, prev, zone, posts,
                   clients_id_seq,
                   checkError>>

\* --------------------------------------------------------- specifications
\* the steps of the invocation in slot p, with every outcome of the roster
\* query, the provider, the upsert and the log insert
Steps(p, answers) ==
    \/ \E queryFails \in BOOLEAN : LoadRoster(p, queryFails)
    \/ \E answer \in answers : FetchOk(p, answer[1], answer[2])
    \/ \E code \in ProviderErrors : FetchFails(p, code)
    \/ UpsertOk(p)
    \/ UpsertFails(p)
    \/ \E insertFails \in BOOLEAN : LogSync(p, insertFails)
    \/ Wake(p)
    \/ Settle(p)

\* syncAllClients called directly, one call after the other has settled
NextSeq ==
    \/ \E date \in Dates : SyncAllClientsCall(1, date)
    \/ Steps(1, ProviderAnswers)

SpecSeq == Init /\ [][NextSeq]_vars

\* one direct call of syncAllClients while the clock runs and clients are
\* activated and deactivated
NextRoster ==
    \/ \E date \in Dates : runs = 0 /\ SyncAllClientsCall(1, date)
    \/ Steps(1, TotalResponses \X OrganicResponses)
    \/ Tick
    \/ \E id \in ClientIds, isActive \in BOOLEAN : SetActive(id, isActive)

SpecRoster == Init /\ [][NextRoster]_vars

\* one direct call of backfillClientData, in a process of any time zone,
\* while clients are deleted
NextBackfill ==
    \/ \E clientId \in ClientIds, startDate \in Dates, endDate \in Dates :
          runs = 0 /\ BackfillClientDataCall(1, clientId, startDate, endDate)
    \/ \E queryFails \in BOOLEAN : LoadClient(1, queryFails)
    \/ \E answer \in ProviderAnswers : FetchOk(1, answer[1], answer[2])
    \/ \E code \in ProviderErrors : FetchFails(1, code)
    \/ UpsertOk(1)
    \/ UpsertFails(1)
    \/ \E insertFails \in BOOLEAN : LogSync(1, insertFails)
    \/ Wake(1)
    \/ Settle(1)
    \/ \E id \in ClientIds : HardDelete(id)

SpecBackfill == InitZones /\ [][NextBackfill]_vars

\* syncAllClients and backfillClientData called directly, one call after the
\* other has settled, while clients are deactivated, reactivated and deleted;
\* the provider answers, the database fails at will
NextClients ==
    \/ \E date \in Dates : SyncAllClientsCall(1, date)
    \/ \E clientId \in ClientIds, startDate \in Dates, endDate \in Dates :
          BackfillClientDataCall(1, clientId, startDate, endDate)
    \/ LoadRoster(1, FALSE)
    \/ LoadClient(1, FALSE)
    \/ FetchOk(1, [rows |-> <<TotalRow>>], [rows |-> <<OrganicRow>>])
    \/ UpsertOk(1)
    \/ UpsertFails(1)
    \/ \E insertFails \in BOOLEAN : LogSync(1, insertFails)
    \/ Wake(1)
    \/ Settle(1)
    \/ \E id \in ClientIds, isActive \in BOOLEAN : SetActive(id, isActive)
    \/ \E id \in ClientIds : HardDelete(id)

SpecClients == Init /\ [][NextClients]_vars

\* the helpers of ga4Service called on their own, and one run of
\* syncAllClients over provider answers with many bounce rates
NextService ==
    \/ \E ga4Date \in GA4Dates : FormatGA4Date(ga4Date)
    \/ \E id \in ClientIds, answer \in MetadataAnswers :
          ValidatePropertyAccess(PropertyOf(id), answer)
    \/ \E date \in Dates : runs = 0 /\ SyncAllClientsCall(1, date)
    \/ LoadRoster(1, FALSE)
    \/ \E answer \in BounceAnswers : FetchOk(1, answer[1], answer[2])
    \/ UpsertOk(1)
    \/ LogSync(1, FALSE)
    \/ Wake(1)
    \/ Settle(1)

SpecService == Init /\ [][NextService]_vars

\* syncYesterday started by the cron job, by runSyncNow and by POST /sync,
\* one run after the other has settled, at any time of the day, in a process
\* of any time zone
NextYesterday ==
    \/ inv[1].pc = "idle" /\ ClockAdvance(1)
    \/ CronJob(1)
    \/ RunSyncNow(1)
    \/ \E role \in {"admin", "client"} : PostSync(1, role)
    \/ LoadRoster(1, FALSE)
    \/ FetchOk(1, [rows |-> <<TotalRow>>], [rows |-> <<OrganicRow>>])
    \/ UpsertOk(1)
    \/ LogSync(1, FALSE)
    \/ Wake(1)
    \/ Settle(1)

SpecYesterday == InitZones /\ [][NextYesterday]_vars

\* requests to create a client, for a property that is registered and for
\* one that is not, and the backfills they start
NewProperties == {PropertyOf(1), PropertyOf(MaxClients + 1)}
NextCreate ==
    \/ \E r \in Posts, gaPropertyId \in NewProperties, valid \in BOOLEAN :
          PostClient(r, gaPropertyId, valid)
    \/ \E r \in Posts, answer \in MetadataAnswers :
          PostClientValidated(r, answer)
    \/ \E r \in Posts, queryFails \in BOOLEAN : PostClientChecked(r, queryFails)
    \/ \E r \in Posts : PostClientInsertFails(r)
    \/ \E r \in Posts, p \in Procs : PostClientCreated(r, p)
    \/ \E p \in Procs :
          \/ LoadClient(p, FALSE)
          \/ FetchOk(p, [rows |-> <<TotalRow>>], [rows |-> <<OrganicRow>>])
          \/ UpsertOk(p)
          \/ LogSync(p, FALSE)
          \/ Wake(p)
          \/ Settle(p)

SpecCreate == Init /\ [][NextCreate]_vars

\* the auto-sync middleware over a day: requests arrive; half an hour passes
\* at any point, also while a sync runs, or twelve hours or twelve and a
\* half while none runs; the sync_logs query answers or fails, and the syncs it
\* starts run with a provider that answers or fails
NextAuto ==
    \/ Tick
    \/ /\ autoPending = {}
       /\ \A p \in Procs : inv[p].pc = "idle"
       /\ \E d \in {StaleTicks, StaleTicks + 1} : ClockAdvance(d)
    \/ \E path \in {"/metrics", "/clients", "/health"} : AutoSyncCheck(path)
    \/ \E p \in Procs, t \in autoPending, queryFails \in BOOLEAN :
          AutoSyncDecide(p, t, queryFails)
    \/ \E p \in Procs :
          \/ \E queryFails \in BOOLEAN : LoadRoster(p, queryFails)
          \/ FetchOk(p, [rows |-> <<TotalRow>>], [rows |-> <<OrganicRow>>])
          \/ FetchFails(p, "UNAVAILABLE")
          \/ UpsertOk(p)
          \/ LogSync(p, FALSE)
          \/ Wake(p)
          \/ Settle(p)

SpecAuto == Init /\ [][NextAuto]_vars

\* the same, with the event loop running the then / catch of a promise that
\* has settled
SpecAutoFair == SpecAuto /\ \A p \in Procs : WF_vars(Settle(p))

\* fetchMetricsRange called on its own, over every report of up to MaxRows
\* days
NextRange ==
    \/ \E id \in ClientIds, response \in RangeResponses :
          FetchMetricsRange(PropertyOf(id), response)
    \/ \E id \in ClientIds, code \in ProviderErrors \cup {"invalid_rapt"} :
          FetchMetricsRangeFails(PropertyOf(id), code)

SpecRange == Init /\ [][NextRange]_vars

\* any interleaving of the triggers and of the invocations they start,
\* within one tick, with a provider and a database that answer
Next ==
    \/ \E p \in Procs : CronJob(p)
    \/ \E p \in Procs : RunSyncNow(p)
    \/ \E p \in Procs, role \in {"admin", "client"} : PostSync(p, role)
    \/ \E p \in Procs, clientId \in ClientIds, startDate \in Dates,
          endDate \in Dates : BackfillCall(p, clientId, startDate, endDate)
    \/ \E path \in {"/metrics", "/clients", "/health"} : AutoSyncCheck(path)
    \/ \E p \in Procs, t \in autoPending : AutoSyncDecide(p, t, FALSE)
    \/ \E p \in Procs : LoadRoster(p, FALSE)
    \/ \E p \in Procs : LoadClient(p, FALSE)
    \/ \E p \in Procs, answer \in ProviderAnswers : FetchOk(p, answer[1], answer[2])
    \/ \E p \in Procs : UpsertOk(p)
    \/ \E p \in Procs : LogSync(p, FALSE)
    \/ \E p \in Procs : Wake(p)
    \/ \E p \in Procs : Settle(p)

Spec == Init /\ [][Next]_vars

\* ================================================================ claims
\* the metric fields of a fetched record, as the columns keep them, and of a
\* stored row, in one order
MetricFields(m) ==
    <<m.sessions, m.users, m.newUsers, m.pageviews,
      Decimal2(m.avgSessionDuration), Decimal2(m.bounceRate), m.organicSessions>>
RowFields(r) ==
    <<r.sessions, r.users, r.new_users, r.pageviews, r.avg_session_duration,
      r.bounce_rate, r.organic_sessions>>

\* the sync_logs rows inserted since the direct call was made
NewLogRows == (Len(hist.sync_logs) + 1)..Len(sync_logs)
NewLogRowsFor(clientId, date) ==
    {j \in NewLogRows : sync_logs[j].client_id = clientId
                        /\ sync_logs[j].sync_date = date}

\* the direct call of syncAllClients in slot 1 has returned its summary
RunReturned == inv[1].fn = "syncAllClients" /\ inv[1].pc = "returned"

\* no upsert and no sync_logs insert of the run failed
NoWriteFailed ==
    \A i \in 1..Len(inv[1].attempts) :
        /\ inv[1].attempts[i].logged
        /\ inv[1].attempts[i].fetchOk => inv[1].attempts[i].upsertOk

\* ---------------------------------------------------------------- C1
\* syncAllClients(d) has run to completion twice in succession, over the same
\* roster, and nothing else wrote to daily_metrics in between
SecondRunDone ==
    /\ RunReturned
    /\ prev.fn = "syncAllClients" /\ prev.pc = "returned"
    /\ prev.date = inv[1].date
    /\ prev.clients = inv[1].clients
    /\ hist.daily_metrics = prev.daily_metrics

\* tenant i of the roster has exactly one row for the date, it had exactly
\* one after the first run, and the row holds the second run's response
IdempotentFor(i) ==
    LET id == inv[1].clients[i].id
        rows == RowsOf(daily_metrics, id, inv[1].date)
    IN /\ Cardinality(rows) = 1
       /\ Cardinality(RowsOf(prev.daily_metrics, id, inv[1].date)) = 1
       /\ \A r \in rows :
            RowFields(daily_metrics[r]) = MetricFields(inv[1].attempts[i].metrics)

\* C1 as stated: after two runs of syncAllClients(d) in succession, every
\* tenant whose fetch succeeded has exactly one row for d, the second run
\* added no row, and the row equals the second run's provider response.
C1_Original ==
    SecondRunDone =>
        \A i \in 1..Len(inv[1].clients) :
            (prev.attempts[i].fetchOk /\ inv[1].attempts[i].fetchOk)
                => IdempotentFor(i)

\* C1 amended: the same for every tenant whose fetch and upsert succeeded in
\* both runs.
C1_Idempotent ==
    SecondRunDone =>
        \A i \in 1..Len(inv[1].clients) :
            (prev.results[i].success /\ inv[1].results[i].success)
                => IdempotentFor(i)

\* the second run stored a response that differs from the first run's
C1_Witness ==
    /\ SecondRunDone
    /\ \E i \in 1..Len(inv[1].clients) :
        /\ prev.results[i].success /\ inv[1].results[i].success
        /\ MetricFields(prev.results[i].metrics)
             # MetricFields(inv[1].results[i].metrics)

\* ---------------------------------------------------------------- C2
\* C2: in every reachable state daily_metrics holds at most one row for each
\* (client_id, date), whatever the interleaving of the invocations.
C2_OneRowPerKey ==
    \A i, j \in 1..Len(daily_metrics) :
        (daily_metrics[i].client_id = daily_metrics[j].client_id
         /\ daily_metrics[i].date = daily_metrics[j].date) => i = j

\* a sync of all clients and a backfill, in flight together, have both
\* upserted the same (client_id, date)
C2_Witness ==
    /\ inv[1].fn # inv[2].fn
    /\ \E i \in 1..Len(inv[1].results), j \in 1..Len(inv[2].results) :
        /\ inv[1].results[i].success /\ inv[2].results[j].success
        /\ inv[1].results[i].clientId = inv[2].results[j].clientId
        /\ inv[1].results[i].date = inv[2].results[j].date

\* ---------------------------------------------------------------- C3
\* the fetch of the K-th tenant of the roster failed and all others succeeded
OnlyFetchFailure(K) ==
    /\ ~inv[1].attempts[K].fetchOk
    /\ \A i \in 1..Len(inv[1].attempts) : i # K => inv[1].attempts[i].fetchOk

\* every tenant but the K-th has its record, the K-th has exactly one failed
\* log row and its daily_metrics rows are as they were before the run
Isolated(K) ==
    LET s == inv[1]
        idK == s.clients[K].id
    IN /\ Len(s.attempts) = Len(s.clients)
       /\ \A i \in 1..Len(s.clients) : i # K =>
            /\ s.results[i].success
            /\ \E r \in RowsOf(daily_metrics, s.clients[i].id, s.date) :
                 RowFields(daily_metrics[r]) = MetricFields(s.attempts[i].metrics)
       /\ ~s.results[K].success
       /\ Cardinality({j \in NewLogRowsFor(idK, s.date) :
                         sync_logs[j].status = "failed"}) = 1
       /\ Cardinality(NewLogRowsFor(idK, s.date)) = 1
       /\ {daily_metrics[r] : r \in RowsOf(daily_metrics, idK, s.date)}
            = {hist.daily_metrics[r] : r \in RowsOf(hist.daily_metrics, idK, s.date)}

InLoop ==
    /\ inv[1].fn = "syncAllClients"
    /\ inv[1].pc \in {"fetch", "upsert", "log", "sleep", "returned"}

\* C4 as stated: every call of syncClientMetrics that has returned appended
\* exactly one sync_logs row for its (client, date), so a run over N tenants
\* adds exactly N rows.
C4_Original ==
    InLoop =>
        /\ \A i \in 1..Len(inv[1].results) :
             Cardinality(NewLogRowsFor(inv[1].results[i].clientId,
                                       inv[1].results[i].date)) = 1
        /\ inv[1].pc = "returned" =>
             Cardinality(NewLogRows) = Len(inv[1].clients)

\* C4 amended: every call of syncClientMetrics that has returned appended
\* exactly one sync_logs row for its (client, date), with the status of its
\* outcome, unless the insert into sync_logs itself failed, and then none; a
\* run over N tenants adds at most N rows, and exactly N when no insert fails.
C4_OneLogPerAttempt ==
    InLoop =>
        /\ \A i \in 1..Len(inv[1].results) :
             LET rows == NewLogRowsFor(inv[1].results[i].clientId,
                                       inv[1].results[i].date)
             IN /\ Cardinality(rows) = IF inv[1].attempts[i].logged THEN 1 ELSE 0
                /\ \A j \in rows :
                     sync_logs[j].status =
                        IF inv[1].results[i].success THEN "success" ELSE "failed"
        /\ Cardinality(NewLogRows) <= Len(inv[1].results)
        /\ (inv[1].pc = "returned"
            /\ \A i \in 1..Len(inv[1].attempts) : inv[1].attempts[i].logged)
             => Cardinality(NewLogRows) = Len(inv[1].clients)

\* a run over two tenants, one synced and one failed, has logged both
C4_Witness ==
    /\ RunReturned
    /\ Len(inv[1].clients) = 2
    /\ inv[1].summary.successCount = 1
    /\ inv[1].summary.failureCount = 1
    /\ Cardinality(NewLogRows) = 2

\* ---------------------------------------------------------------- C5
\* C5: syncAllClients throws exactly when the roster query failed, and then
\* it issued no fetch and wrote no daily_metrics and no sync_logs row; a
\* failed fetch or upsert never makes it throw.
C5_OnlyRosterFailureThrows ==
    inv[1].fn = "syncAllClients" =>
        /\ inv[1].pc = "threw" <=> inv[1].rosterError
        /\ inv[1].pc = "threw" =>
             /\ inv[1].attempts = <<>>
             /\ daily_metrics = hist.daily_metrics
             /\ sync_logs = hist.sync_logs
        /\ (\E i \in 1..Len(inv[1].results) : ~inv[1].results[i].success)
             => inv[1].pc # "threw"

\* a run threw on its roster query although an earlier run had stored rows
C5_Witness ==
    /\ inv[1].fn = "syncAllClients"
    /\ inv[1].pc = "threw"
    /\ Len(daily_metrics) > 0
    /\ Len(sync_logs) > 0

\* ---------------------------------------------------------------- C6
\* slot p is inside a call of syncClientMetrics
InSync(p) == inv[p].pc \in {"fetch", "upsert", "log"}

\* C6: no sync of a tenant is started while another sync of the same tenant
\* is in flight in the process, whichever trigger started either.
C6_NoOverlapPerTenant ==
    \A p, q \in Procs :
        (p # q /\ InSync(p) /\ InSync(q)) => CurClient(p).id # CurClient(q).id

\* ---------------------------------------------------------------- C7
\* C7: whenever an upsert commits, also while another sync attempt of the
\* same (tenant, date) is in flight, the key has one row and all its metric
\* fields are those of the committing upsert.
C7_AtomicUpsert ==
    [][\A p \in Procs :
         (inv[p].pc = "upsert" /\ inv'[p].pc = "log" /\ inv'[p].status = "success")
            => LET rows == RowsOf(daily_metrics', CurClient(p).id, CurDate(p))
               IN /\ Cardinality(rows) = 1
                  /\ \A r \in rows :
                       RowFields(daily_metrics'[r]) = MetricFields(inv[p].metrics)]_vars

\* two attempts for the same (tenant, date) overlapped and both committed
\* upserts of different responses
C7_Witness ==
    /\ inv[1].pc = "log" /\ inv[2].pc = "log"
    /\ inv[1].status = "success" /\ inv[2].status = "success"
    /\ CurClient(1).id = CurClient(2).id
    /\ CurDate(1) = CurDate(2)
    /\ MetricFields(inv[1].metrics) # MetricFields(inv[2].metrics)

\* ---------------------------------------------------------------- C8
\* C8: syncAllClients fetches only for tenants that were active when the
\* roster was read; a tenant inactive at that moment gets no fetch, no
\* daily_metrics row, no sync_logs row and is not counted in totalClients.
C8_OnlyActiveAtLoad ==
    LET s == inv[1]
    IN (s.fn = "syncAllClients" /\ s.pc \in {"fetch", "upsert", "log", "sleep",
                                             "returned"}) =>
        /\ \A i \in 1..Len(s.attempts) :
             \E c \in s.rosterFrom :
                 c.is_active /\ c.ga_property_id = s.attempts[i].property
        /\ \A c \in s.rosterFrom : ~c.is_active =>
             /\ \A i \in 1..Len(s.attempts) :
                  s.attempts[i].property # c.ga_property_id
             /\ \A i \in 1..Len(s.results) : s.results[i].clientId # c.id
             /\ \A r \in 1..Len(daily_metrics) : daily_metrics[r].client_id # c.id
             /\ \A j \in NewLogRows : sync_logs[j].client_id # c.id
        /\ s.pc = "returned" =>
             s.summary.totalClients
                = Cardinality({c \in s.rosterFrom : c.is_active})

\* a tenant that was inactive when the roster was read and is active when
\* the run returns was left out
C8_Witness ==
    /\ RunReturned
    /\ inv[1].summary.totalClients = 1
    /\ \E c \in inv[1].rosterFrom :
        /\ ~c.is_active
        /\ \E d \in clients : d.id = c.id /\ d.is_active

\* ---------------------------------------------------------------- C9
\* C9: in the returned summary successCount + failureCount = totalClients =
\* the length of results = the number of active tenants of the roster, and
\* successCount is the number of tenants whose row this run upserted.
C9_SummaryCounts ==
    RunReturned =>
        LET sm == inv[1].summary
        IN /\ sm.successCount + sm.failureCount = sm.totalClients
           /\ sm.totalClients = Len(sm.results)
           /\ Len(sm.results) = Cardinality({c \in inv[1].rosterFrom : c.is_active})
           /\ sm.successCount
                = Cardinality({i \in 1..Len(inv[1].attempts) :
                                 inv[1].attempts[i].upsertOk})

\* a summary with one synced and one failed tenant
C9_Witness ==
    /\ RunReturned
    /\ inv[1].summary.successCount = 1
    /\ inv[1].summary.failureCount = 1
    /\ \E i \in 1..2 : inv[1].attempts[i].fetchOk /\ ~inv[1].attempts[i].upsertOk

\* --------------------------------------------------------------- C10
\* C10 as stated: once the roster has loaded, syncAllClients does not throw
\* and its summary has success = true, also when tenants failed.
C10_Original ==
    (inv[1].fn = "syncAllClients" /\ ~inv[1].rosterError) =>
        /\ inv[1].pc # "threw"
        /\ inv[1].pc = "returned" => inv[1].summary.success

\* C10 amended: once the roster has loaded, syncAllClients does not throw,
\* also when tenants failed; its summary has success = true exactly when no
\* tenant failed.
C10_BatchSuccess ==
    (inv[1].fn = "syncAllClients" /\ ~inv[1].rosterError) =>
        /\ inv[1].pc # "threw"
        /\ inv[1].pc = "returned" =>
             (inv[1].summary.success
                <=> \A i \in 1..Len(inv[1].attempts) : inv[1].attempts[i].upsertOk)

\* a run in which a tenant failed returned a summary with success = false
C10_Witness ==
    /\ RunReturned
    /\ inv[1].summary.failureCount > 0
    /\ ~inv[1].summary.success

\* --------------------------------------------------------------- C11
\* the summary of a run that found no tenant
ZeroSummary(sm) ==
    /\ sm.totalClients = 0
    /\ sm.successCount = 0
    /\ sm.failureCount = 0
    /\ sm.results = <<>>

\* C11: when the roster query answers and no tenant is active, syncAllClients
\* returns at once, without error, a summary with totalClients = 0,
\* successCount = 0, failureCount = 0 and no results; it issues no fetch and
\* leaves daily_metrics and sync_logs as they are.
C11_EmptyRoster ==
    [][(/\ inv[1].pc = "roster"
        /\ inv'[1].pc # "roster"
        /\ ~inv'[1].rosterError
        /\ \A c \in clients : ~c.is_active)
          => /\ inv'[1].pc = "returned"
             /\ ZeroSummary(inv'[1].summary)
             /\ inv'[1].attempts = <<>>
             /\ inv'[1].clients = <<>>
             /\ daily_metrics' = daily_metrics
             /\ sync_logs' = sync_logs]_vars

\* a run returned the zero summary over a database that holds clients, all
\* inactive, and the rows of an earlier run
C11_Witness ==
    /\ RunReturned
    /\ inv[1].rosterFrom # {}
    /\ \A c \in inv[1].rosterFrom : ~c.is_active
    /\ ZeroSummary(inv[1].summary)
    /\ inv[1].attempts = <<>>
    /\ Len(hist.daily_metrics) > 0
    /\ daily_metrics = hist.daily_metrics
    /\ sync_logs = hist.sync_logs

\* --------------------------------------------------------------- C12
\* the direct call of backfillClientData in slot 1 has returned its summary
BackfillReturned == inv[1].fn = "backfillClientData" /\ inv[1].pc = "returned"

\* the sync_logs rows of one client inserted since the direct call was made
NewLogRowsOf(clientId) == {j \in NewLogRows : sync_logs[j].client_id = clientId}

\* C12: a backfill of an existing tenant over startDate..endDate attempts
\* every day of the range once, in ascending order: totalDays is the number
\* N of days of the range, and, when every log insert succeeded and the
\* tenant was not deleted meanwhile, the tenant has N new sync_logs rows
\* whose sync dates are the N days of the range, and at most N daily_metrics
\* rows.
C12_BackfillCompleteness ==
    LET s == inv[1]
        N == s.endDate - s.startDate + 1
    IN (BackfillReturned /\ s.startDate <= s.endDate) =>
        /\ s.summary.totalClients = N
        /\ Len(s.attempts) = N
        /\ \A i \in 1..Len(s.attempts) : s.attempts[i].date = s.startDate + i - 1
        /\ ((\A i \in 1..Len(s.attempts) : s.attempts[i].logged)
             /\ ClientExists(s.clientId))
              => /\ Cardinality(NewLogRowsOf(s.clientId)) = N
                 /\ {sync_logs[j].sync_date : j \in NewLogRowsOf(s.clientId)}
                      = s.startDate..s.endDate
        /\ Cardinality({r \in 1..Len(daily_metrics) :
                           daily_metrics[r].client_id = s.clientId}) <= N

\* --------------------------------------------------------------- C13
\* the client query of the backfill in slot 1 found the tenant
TenantFound == \E c \in inv[1].rosterFrom : c.id = inv[1].clientId

\* the i-th day of the backfill failed, in its fetch or in its upsert
DayFailed(i) == ~inv[1].attempts[i].fetchOk \/ ~inv[1].attempts[i].upsertOk

\* a failed log row of the backfill for a day; the reference is null when
\* the tenant was deleted afterwards
FailedLogRow(date) ==
    \E j \in NewLogRows :
        /\ sync_logs[j].sync_date = date
        /\ sync_logs[j].status = "failed"
        /\ sync_logs[j].client_id \in {inv[1].clientId, NullId}

\* C13 as stated: backfillClientData throws exactly when no tenant with the
\* id exists, before any fetch and any write; a failed day is logged as
\* failed, the remaining days are attempted and a summary is returned.
C13_Original ==
    (inv[1].fn = "backfillClientData" /\ inv[1].pc # "client") =>
        /\ inv[1].pc = "threw" <=> ~TenantFound
        /\ inv[1].pc = "threw" =>
             /\ inv[1].attempts = <<>>
             /\ daily_metrics = hist.daily_metrics
             /\ sync_logs = hist.sync_logs
        /\ \A i \in 1..Len(inv[1].results) : DayFailed(i) =>
             /\ ~inv[1].results[i].success
             /\ FailedLogRow(inv[1].attempts[i].date)
        /\ inv[1].pc = "returned" =>
             /\ Len(inv[1].attempts) = Len(inv[1].dates)
             /\ Len(inv[1].results) = Len(inv[1].dates)

\* C13 amended: backfillClientData throws exactly when its client query
\* fails or finds no tenant with the id, before any fetch and any write; when
\* the tenant is found, a failed day gives a failed result, logged as failed
\* unless the log insert itself fails, the remaining days are attempted and
\* a summary is returned.
C13_FailFast ==
    (inv[1].fn = "backfillClientData" /\ inv[1].pc # "client") =>
        /\ inv[1].pc = "threw" <=> (inv[1].rosterError \/ ~TenantFound)
        /\ inv[1].pc = "threw" =>
             /\ inv[1].attempts = <<>>
             /\ daily_metrics = hist.daily_metrics
             /\ sync_logs = hist.sync_logs
        /\ \A i \in 1..Len(inv[1].results) : DayFailed(i) =>
             /\ ~inv[1].results[i].success
             /\ inv[1].attempts[i].logged
                  => FailedLogRow(inv[1].attempts[i].date)
        /\ inv[1].pc = "returned" =>
             /\ Len(inv[1].attempts) = Len(inv[1].dates)
             /\ Len(inv[1].results) = Len(inv[1].dates)

\* a backfill of two days returned after its first day failed and its
\* second day was synced
C13_Witness ==
    /\ BackfillReturned
    /\ Len(inv[1].results) = 2
    /\ DayFailed(1) /\ inv[1].attempts[1].logged
    /\ inv[1].results[2].success

\* --------------------------------------------------------------- C14
\* the provider answered the i-th fetch of the run with no rows, to the
\* unfiltered query, to the organic query or to both
ZeroTraffic(i) ==
    /\ inv[1].attempts[i].fetchOk
    /\ \/ inv[1].attempts[i].totalResponse = EmptyResponse
       \/ inv[1].attempts[i].organicResponse = EmptyResponse

\* every metric that comes from a response without rows is 0
ZeroFields(i) ==
    LET a == inv[1].attempts[i]
    IN /\ a.totalResponse = EmptyResponse =>
            /\ a.metrics.sessions = 0 /\ a.metrics.users = 0
            /\ a.metrics.newUsers = 0 /\ a.metrics.pageviews = 0
            /\ a.metrics.avgSessionDuration = 0 /\ a.metrics.bounceRate = 0
       /\ a.organicResponse = EmptyResponse => a.metrics.organicSessions = 0

\* the row of the i-th tenant holds the metrics of the i-th fetch
RowStored(i) ==
    \E r \in RowsOf(daily_metrics, inv[1].clients[i].id, inv[1].date) :
        RowFields(daily_metrics[r]) = MetricFields(inv[1].attempts[i].metrics)

\* a new log row with status success for the i-th tenant
SuccessLogged(i) ==
    \E j \in NewLogRowsFor(inv[1].clients[i].id, inv[1].date) :
        sync_logs[j].status = "success"

\* C14 as stated: an attempt whose fetch brought no rows is a success, its
\* row is upserted with 0 for every metric of an empty response, and a
\* sync_logs row with status success is written.
C14_Original ==
    InLoop =>
        \A i \in 1..Len(inv[1].results) : ZeroTraffic(i) =>
            /\ inv[1].results[i].success
            /\ ZeroFields(i)
            /\ RowStored(i)
            /\ SuccessLogged(i)

\* C14 amended: a fetch that brings no rows is not an error and gives 0 for
\* every metric of an empty response; the attempt is a success and its row
\* is upserted with these values unless the upsert fails, and a sync_logs
\* row with status success is then written unless the log insert fails.
C14_ZeroTraffic ==
    InLoop =>
        /\ \A i \in 1..Len(inv[1].attempts) : ZeroTraffic(i) => ZeroFields(i)
        /\ \A i \in 1..Len(inv[1].results) : ZeroTraffic(i) =>
            /\ inv[1].results[i].success <=> inv[1].attempts[i].upsertOk
            /\ inv[1].attempts[i].upsertOk => RowStored(i)
            /\ (inv[1].attempts[i].upsertOk /\ inv[1].attempts[i].logged)
                 => SuccessLogged(i)

\* a tenant with no rows at all and a tenant with no rows for the organic
\* query only were both synced
C14_Witness ==
    /\ RunReturned
    /\ Len(inv[1].results) = 2
    /\ \A i \in 1..2 : ZeroTraffic(i) /\ RowStored(i) /\ SuccessLogged(i)
    /\ \E i \in 1..2 : inv[1].attempts[i].totalResponse = EmptyResponse
    /\ \E i \in 1..2 : inv[1].attempts[i].totalResponse # EmptyResponse

\* --------------------------------------------------------------- C15
\* C15: when the sync_logs insert of an attempt fails, syncClientMetrics
\* does not throw and returns the outcome that the fetch and the upsert
\* decided, the upserted row is kept, and syncAllClients goes on to the next
\* tenant and returns its summary.
C15_AuditBestEffort ==
    (inv[1].fn = "syncAllClients" /\ ~inv[1].rosterError) =>
        /\ inv[1].pc # "threw"
        /\ \A i \in 1..Len(inv[1].results) : ~inv[1].attempts[i].logged =>
            /\ inv[1].results[i].success <=> inv[1].attempts[i].upsertOk
            /\ inv[1].attempts[i].upsertOk => RowStored(i)
            /\ NewLogRowsFor(inv[1].clients[i].id, inv[1].date) = {}
        /\ inv[1].pc = "returned" =>
            /\ Len(inv[1].attempts) = Len(inv[1].clients)
            /\ Len(inv[1].results) = Len(inv[1].clients)

\* the log insert of the first tenant failed after its upsert; the tenant
\* counts as synced, its row is there and the second tenant was fetched
C15_Witness ==
    /\ RunReturned
    /\ Len(inv[1].clients) = 2
    /\ inv[1].attempts[1].upsertOk /\ ~inv[1].attempts[1].logged
    /\ inv[1].results[1].success
    /\ RowStored(1)
    /\ inv[1].attempts[2].fetchOk

\* --------------------------------------------------------------- C16
\* the client ids of the log rows the run has inserted, in insertion order
NewLogClientIds ==
    [k \in 1..(Len(sync_logs) - Len(hist.sync_logs)) |->
        sync_logs[Len(hist.sync_logs) + k].client_id]

\* the client ids of the tenants whose log row was inserted, in roster order
LoggedClientIds ==
    LET done == [i \in 1..Len(inv[1].results) |->
                    [id |-> inv[1].clients[i].id,
                     logged |-> inv[1].attempts[i].logged]]
        kept == SelectSeq(done, LAMBDA d : d.logged)
    IN [k \in 1..Len(kept) |-> kept[k].id]

\* C16: within one invocation of syncAllClients the tenants are processed
\* one at a time, each once, in the order of the roster, which is the order
\* of their names; the log row of a tenant is inserted after its fetch and
\* upsert have ended and before the fetch of the next tenant starts, so the
\* log rows of the invocation are in processing order.
C16_Sequential ==
    InLoop =>
        LET s == inv[1]
        IN /\ \A i, j \in 1..Len(s.clients) :
                 i < j => /\ s.clients[i].name <= s.clients[j].name
                          /\ s.clients[i].id # s.clients[j].id
           /\ Len(s.attempts) = s.idx
           /\ s.idx <= Len(s.clients)
           /\ \A i \in 1..Len(s.attempts) :
                 s.attempts[i].property = s.clients[i].ga_property_id
           /\ Len(s.results) =
                 IF s.pc \in {"fetch", "upsert", "log"} THEN s.idx - 1 ELSE s.idx
           /\ s.pc \in {"fetch", "upsert", "log"} => ~s.attempts[s.idx].logged
           /\ s.pc = "fetch" =>
                 ~s.attempts[s.idx].fetchOk /\ ~s.attempts[s.idx].upsertOk
           /\ NewLogClientIds = LoggedClientIds

\* two tenants were processed in the order of their names, which is not the
\* order of their ids, and their log rows follow in that order
C16_Witness ==
    /\ RunReturned
    /\ Len(inv[1].clients) = 2
    /\ inv[1].clients[1].id > inv[1].clients[2].id
    /\ NewLogClientIds = <<inv[1].clients[1].id, inv[1].clients[2].id>>

\* --------------------------------------------------------------- C17
\* the two shapes of a log row
SuccessShape(row) ==
    row.status = "success" /\ row.records_synced = 1 /\ row.error_message = NullMsg
FailedShape(row) ==
    row.status = "failed" /\ row.records_synced = 0 /\ row.error_message # NullMsg

\* C17: every sync_logs row is either (success, 1, null), inserted only
\* after the upsert of its attempt succeeded, or (failed, 0, the message of
\* the captured error), inserted only when the fetch or the upsert of its
\* attempt failed; no row has status partial.
C17_LogRowShapes ==
    [][/\ \A j \in 1..Len(sync_logs') :
            SuccessShape(sync_logs'[j]) \/ FailedShape(sync_logs'[j])
       /\ Len(sync_logs') > Len(sync_logs) =>
            LET row == sync_logs'[Len(sync_logs')]
                a == inv[1].attempts[Len(inv[1].attempts)]
            IN /\ Len(sync_logs') = Len(sync_logs) + 1
               /\ inv[1].pc = "log"
               /\ row.client_id = CurClient(1).id
               /\ row.sync_date = CurDate(1)
               /\ SuccessShape(row) => a.fetchOk /\ a.upsertOk
               /\ FailedShape(row) =>
                    /\ ~a.fetchOk \/ ~a.upsertOk
                    /\ row.error_message = inv[1].error
                    /\ a.fetchOk \/ \E code \in ProviderErrors :
                                      row.error_message = FetchErrorMessage(code)]_vars

\* the log holds a success row, a row of a failed fetch and a row of a
\* failed upsert
C17_Witness ==
    /\ \E j \in 1..Len(sync_logs) : SuccessShape(sync_logs[j])
    /\ \E j \in 1..Len(sync_logs) :
          sync_logs[j].error_message = FetchErrorMessage("PERMISSION_DENIED")
    /\ \E j \in 1..Len(sync_logs) : sync_logs[j].error_message = "database error"

\* --------------------------------------------------------------- C18
\* the step removes the clients row of id
Deleted(id) ==
    /\ \E c \in clients : c.id = id
    /\ \A c \in clients' : c.id # id

\* C18: no step of a sync, of a backfill or of a client operation changes or
\* removes a sync_logs row: the table only grows at its end, except that the
\* hard delete of a tenant sets the reference of the tenant's rows to null,
\* keeping every row, while it removes the tenant's daily_metrics rows and
\* no others.
C18_AppendOnly ==
    [][/\ Len(sync_logs') >= Len(sync_logs)
       /\ \A j \in 1..Len(sync_logs) :
            \/ sync_logs'[j] = sync_logs[j]
            \/ /\ Deleted(sync_logs[j].client_id)
               /\ sync_logs'[j] = [sync_logs[j] EXCEPT !.client_id = NullId]
       /\ \A id \in ClientIds : Deleted(id) =>
            /\ Len(sync_logs') = Len(sync_logs)
            /\ \A j \in 1..Len(sync_logs) :
                 sync_logs[j].client_id = id => sync_logs'[j].client_id = NullId
            /\ daily_metrics'
                 = SelectSeq(daily_metrics, LAMBDA r : r.client_id # id)]_vars

\* a tenant that had been synced was hard-deleted: its log row is kept with
\* a null reference, its daily_metrics row is gone, the other tenant's rows
\* are as before
C18_Witness ==
    /\ Cardinality(clients) = MaxClients - 1
    /\ \E j \in 1..Len(sync_logs) :
          sync_logs[j].client_id = NullId /\ sync_logs[j].status = "success"
    /\ \E j \in 1..Len(sync_logs) : sync_logs[j].client_id # NullId
    /\ Len(daily_metrics) > 0
    /\ \A r \in 1..Len(daily_metrics) : ClientExists(daily_metrics[r].client_id)

\* --------------------------------------------------------------- C19
\* the bounce rate the provider reported to the i-th fetch of the run
BounceFraction(i) == inv[1].attempts[i].totalResponse.rows[1].metricValues[6]

\* the i-th fetch brought a bounce rate between 0 and 1 and its row is stored
BounceStored(i) ==
    /\ inv[1].attempts[i].upsertOk
    /\ Len(inv[1].attempts[i].totalResponse.rows) > 0
    /\ BounceFraction(i) >= 0 /\ BounceFraction(i) <= One

\* formatGA4Date gave YYYY-MM-DD with the year, month and day of its input
DateConverted ==
    call.fn = "formatGA4Date" =>
        /\ Len(call.input) = 8
        /\ Len(call.output) = 10
        /\ call.output[5] = "-" /\ call.output[8] = "-"
        /\ SubSeq(call.output, 1, 4) = SubSeq(call.input, 1, 4)
        /\ SubSeq(call.output, 6, 7) = SubSeq(call.input, 5, 6)
        /\ SubSeq(call.output, 9, 10) = SubSeq(call.input, 7, 8)

\* C19 as stated: the stored bounce rate of a provider fraction f in [0, 1]
\* is 100 * f, and formatGA4Date turns YYYYMMDD into YYYY-MM-DD with the same
\* year, month and day.
C19_Original ==
    /\ InLoop =>
         \A i \in 1..Len(inv[1].attempts) : BounceStored(i) =>
             \A r \in RowsOf(daily_metrics, inv[1].clients[i].id, inv[1].date) :
                 daily_metrics[r].bounce_rate = 100 * BounceFraction(i)
    /\ DateConverted

\* C19 amended: the stored bounce rate of a provider fraction f in [0, 1] is
\* 100 * f rounded to two decimals, so it differs from 100 * f by at most
\* 0.005 and lies in [0, 100]; formatGA4Date turns YYYYMMDD into YYYY-MM-DD
\* with the same year, month and day.
C19_UnitConversion ==
    /\ InLoop =>
         \A i \in 1..Len(inv[1].attempts) : BounceStored(i) =>
             \A r \in RowsOf(daily_metrics, inv[1].clients[i].id, inv[1].date) :
                 LET stored == daily_metrics[r].bounce_rate
                     exact == 100 * BounceFraction(i)
                 IN /\ stored % Cent = 0
                    /\ 2 * (stored - exact) <= Cent
                    /\ 2 * (exact - stored) <= Cent
                    /\ stored >= 0 /\ stored <= 100 * One
    /\ DateConverted

\* 0.4532 is stored as 45.32, 0.45326 as 45.33, and 20240115 became
\* 2024-01-15
C19_Witness ==
    /\ RunReturned
    /\ Len(inv[1].attempts) = 2
    /\ \E i, k \in 1..2 :
        /\ BounceStored(i) /\ BounceFraction(i) = 45320
        /\ \E r \in RowsOf(daily_metrics, inv[1].clients[i].id, inv[1].date) :
              daily_metrics[r].bounce_rate = 4532 * Cent
        /\ BounceStored(k) /\ BounceFraction(k) = 45326
        /\ \E r \in RowsOf(daily_metrics, inv[1].clients[k].id, inv[1].date) :
              daily_metrics[r].bounce_rate = 4533 * Cent
    /\ call.fn = "formatGA4Date"
    /\ call.input = <<"2", "0", "2", "4", "0", "1", "1", "5">>
    /\ call.output = <<"2", "0", "2", "4", "-", "0", "1", "-", "1", "5">>

\* --------------------------------------------------------------- C20
\* C20: validatePropertyAccess returns false, without throwing, when the
\* provider denies access, returns true when getMetadata answers, and throws
\* when getMetadata fails for a transient reason.
C20_ValidateOutcome ==
    call.fn = "validatePropertyAccess" =>
        /\ call.outcome = "PERMISSION_DENIED" => (~call.threw /\ call.output = FALSE)
        /\ call.outcome = "ok" => (~call.threw /\ call.output = TRUE)
        /\ call.outcome = "UNAVAILABLE" => call.threw

\* --------------------------------------------------------------- C21
\* the calendar day of a time on the clock of the process's time zone
LocalDateOf(t) == DateOf(LocalTime(t))

\* slot p starts a run of syncYesterday in this step
StartsSyncYesterday(p) ==
    /\ inv[p].pc = "idle"
    /\ inv'[p].pc = "roster"
    /\ inv'[p].trigger \in {"cron", "runSyncNow", "manual", "auto"}

\* C21: syncYesterday calls syncAllClients with the day before the current
\* day of the process's time zone, at every time of the day and for every
\* offset of the zone.
C21_Yesterday ==
    [][\A p \in Procs :
         StartsSyncYesterday(p) => inv'[p].date = LocalDateOf(now) - 1]_vars

\* --------------------------------------------------------------- C22
\* the number a string of digits and dashes writes
DigitValue(c) == CHOOSE k \in 0..9 : DigitChars[k + 1] = c
RECURSIVE NumberOf(_)
NumberOf(chars) ==
    IF chars = <<>> THEN 0
    ELSE LET rest == SubSeq(chars, 1, Len(chars) - 1)
         IN IF chars[Len(chars)] = "-" THEN NumberOf(rest)
            ELSE 10 * NumberOf(rest) + DigitValue(chars[Len(chars)])

\* what fetchDailyMetrics makes of the unfiltered report of one day whose
\* only row is the given row
DayOfRow(row) == parseMetricsResponse([rows |-> <<row>>])

\* C22: fetchMetricsRange returns one record per row of the report, in the
\* order of the rows, which is ascending by date; the six metrics of each
\* record are those fetchDailyMetrics derives from the same row, its date is
\* the date of the row; a report without rows gives the empty list and no
\* error.
C22_RangeDayConsistency ==
    (call.fn = "fetchMetricsRange" /\ call.outcome = "ok") =>
        LET rows == call.input.rows
            out == call.output
        IN /\ ~call.threw
           /\ Len(out) = Len(rows)
           /\ rows = <<>> => out = <<>>
           /\ \A i \in 1..Len(out) :
                /\ NumberOf(out[i].date) = NumberOf(rows[i].dimensionValues[1])
                /\ out[i].sessions = DayOfRow(rows[i]).sessions
                /\ out[i].users = DayOfRow(rows[i]).users
                /\ out[i].newUsers = DayOfRow(rows[i]).newUsers
                /\ out[i].pageviews = DayOfRow(rows[i]).pageviews
                /\ out[i].avgSessionDuration = DayOfRow(rows[i]).avgSessionDuration
                /\ out[i].bounceRate = DayOfRow(rows[i]).bounceRate
           /\ \A i, j \in 1..Len(out) :
                i < j => NumberOf(out[i].date) < NumberOf(out[j].date)

\* a report of two days, one of them with values that are not numbers
C22_Witness ==
    /\ call.fn = "fetchMetricsRange"
    /\ call.outcome = "ok"
    /\ Len(call.output) = 2
    /\ call.output[1].bounceRate = 4532600
    /\ call.output[1].date = <<"2", "0", "2", "4", "-", "0", "1", "-", "0", "9">>
    /\ call.input.rows[2].metricValues[1] = NaN
    /\ call.output[2].sessions = 0

\* --------------------------------------------------------------- C23
\* the requests that were answered 201
Created == {r \in Posts : posts[r].pc = "done" /\ posts[r].status = 201}
\* the requests whose INSERT the UNIQUE constraint refused
LostRace ==
    {r \in Posts : posts[r].pc = "done" /\ posts[r].status = 500
                     /\ posts[r].client = NullId
                     /\ \E q \in Created :
                          posts[q].gaPropertyId = posts[r].gaPropertyId}

\* C23: whatever requests to create a client were made, two of them with
\* the same property at once included, no two rows of clients have the same
\* ga_property_id; a request that was not answered 201 created no row and
\* started no backfill, so the rows added and the backfills started are
\* exactly those of the requests answered 201.
C23_UniqueProperty ==
    /\ \A c, d \in clients : c.ga_property_id = d.ga_property_id => c = d
    /\ \A r \in Posts \ Created :
         posts[r].client = NullId /\ posts[r].backfill = 0
    /\ {c.id : c \in clients} \ ClientIds = {posts[r].client : r \in Created}
    /\ \A r, q \in Created : posts[r].client = posts[q].client => r = q
    /\ runs = Cardinality(Created)

\* two requests with the same new property were both past the check for an
\* existing row; one was answered 201, the INSERT of the other was refused
C23_Witness ==
    /\ Created # {}
    /\ LostRace # {}
    /\ Cardinality(clients) = MaxClients + 1

\* --------------------------------------------------------------- C24
\* C24: the step that answers a request to create a client with 201 starts
\* a sync of yesterday's data for all active clients.
C24_SyncAllOnCreate ==
    [][\A r \in Posts :
         (posts[r].status # 201 /\ posts'[r].status = 201) =>
            \E p \in Procs :
               /\ inv[p].pc = "idle"
               /\ inv'[p].fn = "syncAllClients"
               /\ inv'[p].date = getYesterdayDate]_vars

\* --------------------------------------------------------------- C25
\* the step starts an auto-triggered sync in slot p
StartsAutoSync(p) ==
    /\ inv[p].pc = "idle"
    /\ inv'[p].pc = "roster"
    /\ inv'[p].trigger = "auto"
\* the step is the decision of the check that captured the time t
Decides(t) == t \in autoPending /\ t \notin autoPending'
\* the step is a check that passed the path filter and the throttle
Checks == autoPending' \ autoPending # {}
\* at the time t the last successful sync is more than twelve hours old, or
\* there is none
Stale(t) == LastSuccessfulSync = NoTime \/ t - LastSuccessfulSync > StaleTicks
Throttled == lastSyncCheck # NoTime /\ now - lastSyncCheck < CheckInterval

C26_OrganicWithinSessions ==
    \A i \in 1..Len(daily_metrics) :
        LET r == daily_metrics[i]
        IN /\ r.sessions >= 0
           /\ r.users >= 0
           /\ r.new_users >= 0
           /\ r.pageviews >= 0
           /\ r.organic_sessions >= 0
           /\ r.organic_sessions <= r.sessions

\* --------------------------------------------------------------- C27
\* the slots of the syncs the auto-sync middleware started and that have not
\* settled
AutoInFlight == {p \in Procs : inv[p].pc # "idle" /\ inv[p].trigger = "auto"}

\* C27: at most one sync started by the auto-sync middleware is in flight;
\* a step starts one only when syncInProgress is false and sets the flag in
\* that step, and a trigger while one runs starts nothing.
C27_SingleAutoSync ==
    /\ [](Cardinality(AutoInFlight) <= 1)
    /\ [][\A p \in Procs :
            StartsAutoSync(p) => (~syncInProgress /\ syncInProgress')]_vars
    /\ [][\A t \in autoPending :
            (Decides(t) /\ syncInProgress) =>
               (inv' = inv /\ syncInProgress')]_vars

\* the sync started by the check of the first half hour is still running,
\* the check of the second half hour was decided with its query answered,
\* and no second sync was started
C27_Witness ==
    /\ AutoInFlight # {}
    /\ Len(sync_logs) > 0
    /\ sync_logs[1].created_at = StartTime
    /\ lastSyncCheck = StartTime + CheckInterval
    /\ autoPending = {}
    /\ ~checkError
    /\ runs = 1

\* --------------------------------------------------------------- C28
\* the promise of an auto-triggered syncYesterday has settled in slot p
AutoEnded(p) ==
    inv[p].trigger = "auto" /\ inv[p].pc \in {"returned", "threw"}

\* C28: once the syncYesterday of an auto-triggered sync has resolved or
\* rejected, syncInProgress becomes false; the flag is true only while such
\* a sync is in flight.
C28_GuardReleased ==
    /\ \A p \in Procs : AutoEnded(p) ~> ~syncInProgress
    /\ [](syncInProgress => AutoInFlight # {})

\* an auto-triggered sync was rejected by the failure of its roster query,
\* the guard was released and a later check has started a second one
C28_Witness ==
    /\ runs = 2
    /\ syncInProgress
    /\ \E p \in Procs : inv[p].trigger = "auto" /\ inv[p].pc = "roster"
    /\ sync_logs = <<>>
    /\ \E c \in clients : c.is_active

\* --------------------------------------------------------------- C29
\* the rows a table holds for one (client_id, date)
KeyRows(table, clientId, date) ==
    {table[j] : j \in RowsOf(table, clientId, date)}

\* C29: when a direct call of syncAllClients has returned, every tenant
\* whose attempt failed (a report of the provider or the upsert failed) has
\* for the date exactly the rows it had before the call, with every field
\* as it was: no row was added and none was changed.
C29_FailedAttemptNoWrite ==
    RunReturned =>
        \A i \in 1..Len(inv[1].results) :
            ~inv[1].results[i].success =>
                KeyRows(daily_metrics, inv[1].clients[i].id, inv[1].date)
                  = KeyRows(hist.daily_metrics, inv[1].clients[i].id,
                            inv[1].date)

\* a tenant had a row, the second run fetched other values for it and its
\* upsert failed; the fetch of another attempt of the run failed
C29_Witness ==
    /\ RunReturned
    /\ \E i \in 1..Len(inv[1].results) :
         /\ ~inv[1].results[i].success
         /\ inv[1].attempts[i].fetchOk
         /\ \E r \in KeyRows(hist.daily_metrics, inv[1].clients[i].id,
                              inv[1].date) :
              RowFields(r) # MetricFields(inv[1].attempts[i].metrics)
    /\ \E i \in 1..Len(inv[1].results) :
         ~inv[1].results[i].success /\ ~inv[1].attempts[i].fetchOk

\* --------------------------------------------------------------- C30
\* C30: no daily_metrics row references a client that has no clients row,
\* at any moment of a sync or a backfill that a hard delete interleaves
\* with; an upsert that answers after the delete of its tenant fails, writes
\* nothing and makes the attempt a failed one, and the run returns with one
\* result per tenant or day it went through.
C30_NoOrphanAfterDelete ==
    /\ [](\A j \in 1..Len(daily_metrics) :
            ClientExists(daily_metrics[j].client_id))
    /\ [][\A p \in Procs :
            (inv[p].pc = "upsert" /\ inv'[p].pc # "upsert"
             /\ ~ClientExists(CurClient(p).id))
               => /\ inv'[p].pc = "log"
                  /\ inv'[p].status = "failed"
                  /\ daily_metrics' = daily_metrics]_vars
    /\ [](\A p \in Procs :
            inv[p].pc = "returned" => Len(inv[p].results) = LoopLength(inv[p]))

\* the first tenant of a roster of two had a row and was deleted while the
\* run was in flight: its attempt fetched and failed, nothing references it,
\* and the run went on to store the second tenant's row
C30_Witness ==
    /\ RunReturned
    /\ Len(inv[1].clients) = 2
    /\ ~ClientExists(inv[1].clients[1].id)
    /\ inv[1].attempts[1].fetchOk
    /\ ~inv[1].results[1].success
    /\ RowsOf(hist.daily_metrics, inv[1].clients[1].id, inv[1].date) # {}
    /\ \A j \in 1..Len(daily_metrics) :
         daily_metrics[j].client_id # inv[1].clients[1].id
    /\ inv[1].results[2].success
    /\ RowsOf(daily_metrics, inv[1].clients[2].id, inv[1].date) # {}

====
